---- MODULE Spec2Model ----
(***************************************************************************)
(* Verification model of k8s-security-scanner: the scoring engine          *)
(* (src/utils/scoring.py), the scanner catalog and its orchestrator        *)
(* (src/utils/scanner_manager.py, src/scanners/*.py).                      *)
(*                                                                         *)
(* Conventions                                                             *)
(*  - Python None is <<>>, a present value v is <<v>> (Some(v)).           *)
(*  - Python str is a TLA+ string; character access is SubSeq(s, i, i).    *)
(*  - A Python float x >= 0 is the triple <<l0, l1, l2>> of 21-bit limbs   *)
(*    with x = (l0 + l1 * 2^21 + l2 * 2^42) * 2^-52; every operation       *)
(*    rounds to 53 significant bits, ties to even, as IEEE-754 binary64.   *)
(***************************************************************************)
EXTENDS Integers, Sequences, FiniteSets, TLC

VARIABLES
    findings,       \* argument list of SecurityScorer.calculate_pod_score
    score_result,   \* its return value for `findings`
    prev_result,    \* its return value for the list before the last append
    pod_scores,     \* argument list of calculate_namespace_score
    ns_result,      \* its return value for `pod_scores`
    pods,           \* argument list of ScannerManager.scan_pods
    scan_result,    \* its return value for `pods` (None before the call)
    rule_findings,  \* scanner.scan(pods[1]) of every scanner class
    accumulators,   \* BaseScanner.findings of each registered scanner
    scan_log,       \* the direct calls of ScannerManager.scan_pod: the index
                    \* of the pod, the pod as passed, whether scan_pods
                    \* was called before, the list returned
    compliance_findings,  \* argument list of analyze_compliance
    compliance_result,    \* its return value for `compliance_findings`
    call_outcome,         \* how one call on the pods ended (None before it):
                          \* the value returned or the exception raised
    namespace_log,        \* main.scan: what list_namespaced_pod gave for each
                          \* namespace visited so far
    scan_locals,          \* main.scan: all_results, total_pods, pod_scores
    run_outcome           \* main.scan: how the run ended (None while looping)

vars == <<findings, score_result, prev_result, pod_scores, ns_result,
          pods, scan_result, rule_findings, accumulators, scan_log,
          compliance_findings, compliance_result, call_outcome,
          namespace_log, scan_locals, run_outcome>>

\* one run of the scan command
cli_vars == <<namespace_log, scan_locals, run_outcome>>

\* the call made on the listed pods
call_vars == <<call_outcome>>

\* the argument and the result of the ComplianceMapper
compliance_vars == <<compliance_findings, compliance_result>>

\* the state of the ScannerManager and of the calls made on it
manager_vars == <<rule_findings, accumulators, scan_log>>

\* ------------------------------------------------------------------------
\* Bounds
\* ------------------------------------------------------------------------
MaxFindings == 4     \* longest free-form finding list given to the scorer
MaxPlain == 20       \* longest list of plain findings given to the scorer
MaxPodScores == 4    \* longest pod score list given to the namespace scorer
MaxPods == 2         \* longest pod list given to scan_pods
MaxScanCalls == 2    \* most direct calls of scan_pod on one manager
MaxComplianceFindings == 3  \* longest list given to analyze_compliance
MaxNamespaces == 2   \* most namespaces visited in one run

\* ------------------------------------------------------------------------
\* Python values
\* ------------------------------------------------------------------------
None == <<>>
Some(v) == <<v>>
IsNone(o) == o = <<>>
Val(o) == o[1]

Max(a, b) == IF a >= b THEN a ELSE b

\* ------------------------------------------------------------------------
\* Python str operations
\* ------------------------------------------------------------------------
UpperAlphabet == "ABCDEFGHIJKLMNOPQRSTUVWXYZ"
LowerAlphabet == "abcdefghijklmnopqrstuvwxyz"

\* the characters of s, as a sequence of one-character strings
Chars(s) == [i \in 1..Len(s) |-> SubSeq(s, i, i)]

UpperChars == Chars(UpperAlphabet)
LowerChars == Chars(LowerAlphabet)

\* str.lower() of one character
lower_char(c) ==
    IF \E i \in 1..26 : UpperChars[i] = c
    THEN LowerChars[CHOOSE i \in 1..26 : UpperChars[i] = c]
    ELSE c

\* str.lower(), result as a character sequence
str_lower(s) == [i \in 1..Len(s) |-> lower_char(SubSeq(s, i, i))]

\* `sub in s` on character sequences
str_contains(sub, s) ==
    \E i \in 0..(Len(s) - Len(sub)) :
        \A j \in 1..Len(sub) : s[i + j] = sub[j]

\* `sub in s` on strings
str_in(sub, s) == str_contains(Chars(sub), Chars(s))

\* s.startswith(prefix)
str_startswith(s, prefix) ==
    Len(prefix) <= Len(s) /\ SubSeq(s, 1, Len(prefix)) = prefix

\* s.endswith(suffix)
str_endswith(s, suffix) ==
    /\ Len(suffix) <= Len(s)
    /\ SubSeq(s, Len(s) - Len(suffix) + 1, Len(s)) = suffix

\* s.split(sep)[0] for a one-character separator
str_split_first(s, sep) ==
    IF str_in(sep, s)
    THEN LET k == CHOOSE i \in 1..Len(s) :
                      /\ SubSeq(s, i, i) = sep
                      /\ \A j \in 1..(i - 1) : SubSeq(s, j, j) # sep
         IN SubSeq(s, 1, k - 1)
    ELSE s

\* str.upper() of one character
upper_char(c) ==
    IF \E i \in 1..26 : LowerChars[i] = c
    THEN UpperChars[CHOOSE i \in 1..26 : LowerChars[i] = c]
    ELSE c

\* str.upper(), result as a character sequence
str_upper(s) == [i \in 1..Len(s) |-> upper_char(SubSeq(s, i, i))]

\* the list built by extending an empty list with lists[1], ..., lists[n]
extend_all(lists) ==
    LET acc[i \in 0..Len(lists)] ==
            IF i = 0 THEN <<>> ELSE acc[i - 1] \o lists[i]
    IN acc[Len(lists)]

\* ------------------------------------------------------------------------
\* Python float (IEEE-754 binary64) on non-negative values below 2^11
\* ------------------------------------------------------------------------
Limb == 2^21

\* carry propagation
float_norm(l0, l1, l2) ==
    LET m1 == l1 + (l0 \div Limb)
    IN <<l0 % Limb, m1 % Limb, l2 + (m1 \div Limb)>>

\* position of the leading one bit of n >= 1
floor_log2(n) == CHOOSE e \in 0..30 : 2^e <= n /\ n < 2^(e + 1)

\* round an exact value to 53 significant bits, ties to even
float_round(x) ==
    LET k == IF x[3] < 2^11 THEN 0 ELSE floor_log2(x[3]) - 10
    IN IF k = 0 THEN x
       ELSE LET low == x[1] % (2^k)
                half == 2^(k - 1)
                odd == (x[1] \div (2^k)) % 2 = 1
                up == low > half \/ (low = half /\ odd)
            IN float_norm((x[1] - low) + (IF up THEN 2^k ELSE 0), x[2], x[3])

float_zero == <<0, 0, 0>>

\* float(n) for a small integer n
float_of_int(n) == <<0, 0, n * (2^10)>>

\* x + y
float_add(x, y) == float_round(float_norm(x[1] + y[1], x[2] + y[2], x[3] + y[3]))

\* n * x for a small integer n
float_mul_int(n, x) == float_round(float_norm(n * x[1], n * x[2], n * x[3]))

\* int(x)
float_to_int(x) == x[3] \div (2^10)

\* the binary64 value of the decimal literals 1.0, 1.2, 1.3 and 1.5, keyed
\* by the literal in tenths
float_literal ==
    [t \in {10, 12, 13, 15} |->
        IF t = 10 THEN <<0, 0, 1024>>
        ELSE IF t = 12 THEN <<1258291, 1677721, 1228>>
        ELSE IF t = 13 THEN <<838861, 419430, 1331>>
        ELSE <<0, 0, 1536>>]

\* ------------------------------------------------------------------------
\* Inputs of the scorer
\* ------------------------------------------------------------------------
\* findings as the scorer reads them: finding.get('severity'), .get('issue')
ScoreFindings ==
    { [severity |-> "CRITICAL",
       issue |-> "Hardcoded secret in environment variable: DB_PASSWORD"],
      [severity |-> "CRITICAL", issue |-> "Container running as root user"],
      [severity |-> "HIGH", issue |-> "POD USING HOST NETWORK"],
      [severity |-> "MEDIUM",
       issue |-> "Container running in privileged mode; pod using host network"],
      [severity |-> "LOW",
       issue |-> "Pod using host network with a hardcoded secret"],
      [severity |-> "LOW", issue |-> "Process running as root"],
      [severity |-> "LOW", issue |-> "Pod using host network"],
      [severity |-> "INFO", issue |-> "Informational note"] }

\* a finding whose issue text carries no multiplier phrase
PlainIssue == "Privilege escalation allowed"
PlainFinding(s) == [severity |-> s, issue |-> PlainIssue]

\* the issue texts of the findings of the registered scanners on the pods
\* of a run
RuleIssueTexts ==
    {"Container running as root user", "Container running in privileged mode",
     "Privilege escalation allowed", "Root filesystem is writable",
     "Missing CPU limit", "Missing memory limit",
     "Missing resource requests: cpu and memory",
     "Missing resource requests: cpu", "Missing resource requests: memory",
     "Using :latest image tag", "Image has no tag specified",
     "Image from untrusted registry: docker.io",
     "Image from untrusted registry: myregistry:5000"}

\* every issue text that occurs in a finding
IssueTexts == {f.issue : f \in ScoreFindings} \cup {PlainIssue} \cup RuleIssueTexts

\* ------------------------------------------------------------------------
\* SecurityScorer (src/utils/scoring.py)
\* ------------------------------------------------------------------------
Severities == {"CRITICAL", "HIGH", "MEDIUM", "LOW"}

SEVERITY_WEIGHTS ==
    [CRITICAL |-> 15, HIGH |-> 8, MEDIUM |-> 3, LOW |-> 1]

\* dict in insertion order; mult is the decimal literal in tenths
ISSUE_MULTIPLIERS ==
    << [issue_type |-> "Hardcoded secret", mult |-> 15],
       [issue_type |-> "Container running as root", mult |-> 13],
       [issue_type |-> "Container running in privileged mode", mult |-> 13],
       [issue_type |-> "Pod using host network", mult |-> 12] >>

\* SEVERITY_WEIGHTS.get(severity, 1)
base_deduction(severity) ==
    IF severity \in DOMAIN SEVERITY_WEIGHTS THEN SEVERITY_WEIGHTS[severity]
    ELSE 1

\* the loop over ISSUE_MULTIPLIERS.items() with its break; the multiplier
\* literal in tenths, 10 for the initial 1.0
RECURSIVE first_multiplier(_, _)
first_multiplier(issue_l, k) ==
    IF k > Len(ISSUE_MULTIPLIERS) THEN 10
    ELSE IF str_contains(str_lower(ISSUE_MULTIPLIERS[k].issue_type), issue_l)
         THEN ISSUE_MULTIPLIERS[k].mult
         ELSE first_multiplier(issue_l, k + 1)

\* the same loop on the issue text as written, its case kept
issue_multiplier_case_sensitive(issue) == first_multiplier(Chars(issue), 1)

issue_multiplier(issue) == first_multiplier(str_lower(issue), 1)

\* issue_multiplier evaluated once for every issue text that occurs
multiplier_of == [t \in IssueTexts |-> issue_multiplier(t)]

\* deduction * multiplier of one finding (a float)
finding_deduction(f) ==
    float_mul_int(base_deduction(f.severity),
                  float_literal[multiplier_of[f.issue]])

\* total_deductions after the loop: left-to-right float accumulation,
\* acc[i] being the value after the i-th finding
sum_deductions(fs) ==
    LET acc[i \in 0..Len(fs)] ==
            IF i = 0 THEN float_zero
            ELSE float_add(acc[i - 1], finding_deduction(fs[i]))
    IN acc[Len(fs)]

\* the staircase with strict comparisons
score_to_grade_gt(n, d) ==
    IF n > 95 * d THEN "A+"
    ELSE IF n > 90 * d THEN "A"
    ELSE IF n > 85 * d THEN "A-"
    ELSE IF n > 80 * d THEN "B+"
    ELSE IF n > 75 * d THEN "B"
    ELSE IF n > 70 * d THEN "B-"
    ELSE IF n > 65 * d THEN "C+"
    ELSE IF n > 60 * d THEN "C"
    ELSE IF n > 55 * d THEN "C-"
    ELSE IF n > 50 * d THEN "D"
    ELSE "F"

\* _score_to_grade(score) for the score n / d  (d > 0)
score_to_grade(n, d) ==
    IF n >= 95 * d THEN "A+"
    ELSE IF n >= 90 * d THEN "A"
    ELSE IF n >= 85 * d THEN "A-"
    ELSE IF n >= 80 * d THEN "B+"
    ELSE IF n >= 75 * d THEN "B"
    ELSE IF n >= 70 * d THEN "B-"
    ELSE IF n >= 65 * d THEN "C+"
    ELSE IF n >= 60 * d THEN "C"
    ELSE IF n >= 55 * d THEN "C-"
    ELSE IF n >= 50 * d THEN "D"
    ELSE "F"

\* the thresholds with the first two tests exchanged
determine_risk_level_unordered(severity_counts) ==
    IF severity_counts["CRITICAL"] >= 1 \/ severity_counts["HIGH"] >= 5
    THEN "HIGH"
    ELSE IF severity_counts["CRITICAL"] >= 3 THEN "CRITICAL"
    ELSE IF severity_counts["HIGH"] >= 2 \/ severity_counts["MEDIUM"] >= 8
    THEN "MODERATE"
    ELSE IF severity_counts["MEDIUM"] >= 3 \/ severity_counts["LOW"] >= 10
    THEN "LOW"
    ELSE "MINIMAL"

\* _determine_risk_level(severity_counts)
determine_risk_level(severity_counts) ==
    IF severity_counts["CRITICAL"] >= 3 THEN "CRITICAL"
    ELSE IF severity_counts["CRITICAL"] >= 1 \/ severity_counts["HIGH"] >= 5
    THEN "HIGH"
    ELSE IF severity_counts["HIGH"] >= 2 \/ severity_counts["MEDIUM"] >= 8
    THEN "MODERATE"
    ELSE IF severity_counts["MEDIUM"] >= 3 \/ severity_counts["LOW"] >= 10
    THEN "LOW"
    ELSE "MINIMAL"

\* severity_counts after the loop
count_severities(fs) ==
    [s \in Severities |->
        Cardinality({i \in DOMAIN fs : fs[i].severity = s})]

\* an early return that treats "nothing found" as "nothing passed"
empty_score_result_failing ==
    [score |-> 0, grade |-> "F", total_deductions |-> 0,
     findings_count |-> 0, risk_level |-> "MINIMAL"]

\* the early return of calculate_pod_score for an empty list
empty_score_result ==
    [score |-> 100, grade |-> "A+", total_deductions |-> 0,
     findings_count |-> 0, risk_level |-> "MINIMAL"]

\* the subtraction without the floor at 0
score_from_deductions_unclamped(total) == 100 - float_to_int(total)

\* score = max(0, 100 - int(total_deductions))
score_from_deductions(total) == Max(0, 100 - float_to_int(total))

\* calculate_pod_score(findings).  `severity_counts[severity] += 1` raises
\* KeyError for a severity outside the four keys.
calculate_pod_score(fs) ==
    IF fs = <<>> THEN empty_score_result
    ELSE IF \E i \in DOMAIN fs : fs[i].severity \notin Severities
    THEN [raised |-> "KeyError"]
    ELSE LET total == sum_deductions(fs)
             score == score_from_deductions(total)
         IN [score |-> score,
             grade |-> score_to_grade(score, 1),
             total_deductions |-> float_to_int(total),
             findings_count |-> Len(fs),
             severity_breakdown |-> count_severities(fs),
             risk_level |-> determine_risk_level(count_severities(fs))]

Raised(r) == "raised" \in DOMAIN r

\* truncation to one decimal place instead of rounding
round1_truncating(n, d) == (10 * n) \div d

\* round(x, 1) for x = n / d, result in tenths (round half to even)
round1(n, d) ==
    LET q == (10 * n) \div d
        r == (10 * n) % d
    IN IF 2 * r < d THEN q
       ELSE IF 2 * r > d THEN q + 1
       ELSE IF q % 2 = 0 THEN q ELSE q + 1

RECURSIVE sum_scores(_)
sum_scores(pss) ==
    IF pss = <<>> THEN 0 ELSE Head(pss).score + sum_scores(Tail(pss))

\* calculate_namespace_score(pod_scores); average_score is in tenths
calculate_namespace_score(pss) ==
    IF pss = <<>>
    THEN [average_score |-> 1000, grade |-> "A+", total_pods |-> 0,
          pods_at_risk |-> 0]
    ELSE LET total_score == sum_scores(pss)
             n == Len(pss)
             scores == {pss[i].score : i \in DOMAIN pss}
         IN [average_score |-> round1(total_score, n),
             grade |-> score_to_grade(total_score, n),
             total_pods |-> n,
             pods_at_risk |->
                 Cardinality({i \in DOMAIN pss : pss[i].score < 70}),
             critical_pods |->
                 Cardinality({i \in DOMAIN pss : pss[i].score < 40}),
             best_score |-> CHOOSE s \in scores : \A t \in scores : t <= s,
             worst_score |-> CHOOSE s \in scores : \A t \in scores : s <= t]

\* ------------------------------------------------------------------------
\* ComplianceMapper (src/utils/compliance.py)
\* ------------------------------------------------------------------------
\* framework = ref.split('-')[0] if '-' in ref else ref
framework_of(ref) == str_split_first(ref, "-")

\* the entry appended to framework_violations[framework]
violation_entry(finding, ref) ==
    [reference |-> ref, issue |-> finding.issue,
     severity |-> finding.severity, pod |-> finding.pod_name]

\* the (finding, ref) pairs in the order the two loops visit them
compliance_refs(fs) ==
    extend_all([i \in DOMAIN fs |->
                   [k \in DOMAIN fs[i].compliance |->
                       [finding |-> fs[i], ref |-> fs[i].compliance[k]]]])

\* framework_violations after the loops: a defaultdict(list), here a
\* function whose domain is the set of keys
group_violations(fs) ==
    LET visits == compliance_refs(fs)
        grouped[n \in 0..Len(visits)] ==
            IF n = 0 THEN <<>>
            ELSE LET framework_violations == grouped[n - 1]
                     framework == framework_of(visits[n].ref)
                     entry == violation_entry(visits[n].finding, visits[n].ref)
                 IN IF framework \in DOMAIN framework_violations
                    THEN [framework_violations EXCEPT
                             ![framework] = Append(@, entry)]
                    ELSE framework_violations @@ (framework :> <<entry>>)
    IN grouped[Len(visits)]

\* sum(1 for v in violations if v['severity'] == severity)
count_violations(violations, severity) ==
    Cardinality({k \in DOMAIN violations : violations[k].severity = severity})

\* the percentage with the two tests in the other order
compliance_pct_high_first(critical, high) ==
    IF high > 0 THEN Max(0, 80 - (high * 5))
    ELSE IF critical > 0 THEN Max(0, 60 - (critical * 10) - (high * 5))
    ELSE 90

\* compliance_pct of a framework with `critical` and `high` violations
compliance_pct(critical, high) ==
    IF critical > 0 THEN Max(0, 60 - (critical * 10) - (high * 5))
    ELSE IF high > 0 THEN Max(0, 80 - (high * 5))
    ELSE 90

\* ComplianceMapper._get_compliance_status
get_compliance_status(percentage) ==
    IF percentage >= 90 THEN "COMPLIANT"
    ELSE IF percentage >= 70 THEN "MOSTLY_COMPLIANT"
    ELSE IF percentage >= 50 THEN "PARTIALLY_COMPLIANT"
    ELSE "NON_COMPLIANT"

\* the entry of framework_scores for one framework
framework_score(violations) ==
    LET critical == count_violations(violations, "CRITICAL")
        high == count_violations(violations, "HIGH")
    IN [compliance_percentage |-> compliance_pct(critical, high),
        total_violations |-> Len(violations),
        critical_violations |-> critical,
        high_violations |-> high,
        status |-> get_compliance_status(compliance_pct(critical, high))]

\* an analysis that files every reference under its full text
analyze_compliance_ungrouped(fs) ==
    LET visits == compliance_refs(fs)
        framework_violations ==
            [ref \in {visits[n].ref : n \in DOMAIN visits} |->
                LET Is(v) == v.reference = ref
                IN SelectSeq([n \in DOMAIN visits |->
                                 violation_entry(visits[n].finding,
                                                 visits[n].ref)], Is)]
    IN [framework_scores |->
            [fw \in DOMAIN framework_violations |->
                framework_score(framework_violations[fw])],
        framework_violations |-> framework_violations,
        total_frameworks_affected |-> Cardinality(DOMAIN framework_violations)]

\* ComplianceMapper.analyze_compliance
analyze_compliance(fs) ==
    LET framework_violations == group_violations(fs)
    IN [framework_scores |->
            [fw \in DOMAIN framework_violations |->
                framework_score(framework_violations[fw])],
        framework_violations |-> framework_violations,
        total_frameworks_affected |-> Cardinality(DOMAIN framework_violations)]

\* ComplianceMapper.FRAMEWORKS
FRAMEWORKS ==
    ("CIS" :> "CIS Kubernetes Benchmark")
        @@ ("PCI-DSS" :> "PCI Data Security Standard")
        @@ ("NIST" :> "NIST 800-190 Container Security")
        @@ ("GDPR" :> "General Data Protection Regulation")
        @@ ("SOC2" :> "SOC 2 Type II")
        @@ ("HIPAA" :> "Health Insurance Portability and Accountability Act")

\* ComplianceMapper.get_framework_name
get_framework_name(framework_code) ==
    IF framework_code \in DOMAIN FRAMEWORKS
    THEN FRAMEWORKS[framework_code]
    ELSE framework_code

\* findings given to analyze_compliance: the fields it reads
ComplianceFinding(severity, issue, pod_name, compliance) ==
    [severity |-> severity, issue |-> issue, pod_name |-> pod_name,
     compliance |-> compliance]

ComplianceFindings ==
    {ComplianceFinding("CRITICAL", "Container running in privileged mode",
                       "pod-a", <<"CIS-5.2.1">>),
     ComplianceFinding("CRITICAL", "Container running as root user", "pod-a",
                       <<"CIS-5.2.6", "PCI-DSS-2.2.5", "NIST-800-190">>),
     ComplianceFinding("HIGH", "Missing CPU limit", "pod-b",
                       <<"CIS-5.2.7", "PCI-DSS-2.2",
                         "Resource Management Best Practices">>),
     ComplianceFinding("LOW", "No AppArmor or SELinux profile", "pod-a",
                       <<"CIS-5.7.2", "Defense-in-Depth">>),
     ComplianceFinding("CRITICAL", "Hardcoded secret in environment variable: K",
                       "pod-b", <<"CIS-5.4.3", "CIS-5.2.1", "CIS-5.2.6",
                                  "GDPR-Article-32", "SOC2-CC6.1">>),
     ComplianceFinding("HIGH", "Pod using host network", "pod-c",
                       <<"CIS-5.2.1", "CIS-5.2.2", "CIS-5.2.3", "CIS-5.2.4",
                         "CIS-5.2.5", "CIS-5.2.6", "CIS-5.2.7", "CIS-5.2.8",
                         "CIS", "-PCI">>),
     ComplianceFinding("MEDIUM", "Image has no tag specified", "pod-c", <<>>)}

\* ------------------------------------------------------------------------
\* Pod objects (kubernetes client V1Pod), the fields the scanners read
\* ------------------------------------------------------------------------
\* Python truthiness of an optional bool, dict (its key set), list and str
truthy(o) == o # None /\ Val(o) = TRUE
truthy_dict(o) == o # None /\ Val(o) # {}
truthy_list(o) == o # None /\ Val(o) # <<>>
truthy_str(o) == o # None /\ Val(o) # ""

\* V1SecurityContext of a container
SecurityContext(run_as_user, run_as_non_root, privileged, allow_pe, read_only) ==
    [run_as_user |-> run_as_user,
     run_as_non_root |-> run_as_non_root,
     privileged |-> privileged,
     allow_privilege_escalation |-> allow_pe,
     read_only_root_filesystem |-> read_only,
     capabilities |-> None,
     seccomp_profile |-> None,
     se_linux_options |-> None]

\* V1PodSecurityContext
PodSecurityContext(run_as_user, run_as_non_root, seccomp_profile) ==
    [run_as_user |-> run_as_user,
     run_as_non_root |-> run_as_non_root,
     seccomp_profile |-> seccomp_profile]

\* V1Capabilities
Capabilities(add) == [add |-> add]

\* V1Volume; host_path is the path of its V1HostPathVolumeSource
Volume(name, host_path) == [name |-> name, host_path |-> host_path]

\* V1ResourceRequirements; a dict is the set of its keys
Resources(limits, requests) == [limits |-> limits, requests |-> requests]

\* V1EnvVar
EnvVar(name, value, value_from) ==
    [name |-> name, value |-> value, value_from |-> value_from]

\* V1Container
Container(name, image, security_context, resources, env) ==
    [name |-> name, image |-> image, security_context |-> security_context,
     resources |-> resources, env |-> env, volume_mounts |-> None]

\* V1Pod
Pod(name, namespace, containers, security_context, host_network) ==
    [metadata |-> [name |-> name, namespace |-> namespace,
                   annotations |-> None],
     spec |-> [containers |-> containers,
               security_context |-> security_context,
               host_network |-> host_network,
               host_pid |-> None,
               host_ipc |-> None,
               volumes |-> None,
               service_account_name |-> None,
               service_account |-> None,
               automount_service_account_token |-> None]]

\* ------------------------------------------------------------------------
\* BaseScanner (src/scanners/base_scanner.py)
\* ------------------------------------------------------------------------
\* _get_category() of each scanner class
scanner_category ==
    [RootUserScanner |-> "pod_security",
     PrivilegedScanner |-> "pod_security",
     PrivilegeEscalationScanner |-> "pod_security",
     ReadOnlyFilesystemScanner |-> "pod_security",
     CPULimitsScanner |-> "resource_management",
     MemoryLimitsScanner |-> "resource_management",
     ResourceRequestsScanner |-> "resource_management",
     LatestTagScanner |-> "image_security",
     UntaggedImageScanner |-> "image_security",
     ImageRegistryScanner |-> "image_security",
     SecretsInEnvScanner |-> "secrets_management",
     HostNetworkScanner |-> "network_security",
     CapabilitiesScanner |-> "pod_security",
     HostPathScanner |-> "host_access",
     HostNamespacesScanner |-> "host_access",
     SeccompScanner |-> "pod_security",
     AppArmorSELinuxScanner |-> "pod_security",
     AutomountTokenScanner |-> "rbac",
     DefaultServiceAccountScanner |-> "rbac",
     MissingSecurityContextScanner |-> "pod_security"]

\* create_finding(...) of the scanner `name`.  description and remediation
\* are the values interpolated into the scanner's fixed text, in order.
create_finding(name, severity, pod, container_name, issue, description, remediation, compliance) ==
    [scanner |-> name,
     severity |-> severity,
     pod_name |-> pod.metadata.name,
     namespace |-> pod.metadata.namespace,
     container_name |-> container_name,
     issue |-> issue,
     description |-> description,
     remediation |-> remediation,
     compliance |-> compliance,
     category |-> scanner_category[name]]

\* ------------------------------------------------------------------------
\* The scanners (src/scanners/*.py)
\* ------------------------------------------------------------------------
\* RootUserScanner._create_root_finding
create_root_finding(pod, c, reason) ==
    create_finding("RootUserScanner", "CRITICAL", pod, c.name,
                   "Container running as root user",
                   <<c.name, pod.metadata.name, reason>>, <<>>,
                   <<"CIS-5.2.6", "PCI-DSS-2.2.5", "NIST-800-190">>)

\* the loop body testing runAsNonRoot before runAsUser
root_user_container_non_root_first(pod, c) ==
    IF c.security_context # None
    THEN LET sc == Val(c.security_context)
         IN IF sc.run_as_non_root = Some(TRUE)
            THEN <<>>
            ELSE <<create_root_finding(pod, c,
                      "Explicitly running as root (runAsUser: 0)")>>
    ELSE <<create_root_finding(pod, c,
              "No security context defined (defaults to root)")>>

\* RootUserScanner.scan, the body of the loop for one container
root_user_container(pod, c) ==
    IF c.security_context # None
    THEN LET sc == Val(c.security_context)
             pod_run_as_user ==
                 IF pod.spec.security_context # None
                 THEN Val(pod.spec.security_context).run_as_user
                 ELSE None
         IN IF sc.run_as_user = Some(0)
            THEN <<create_root_finding(pod, c,
                      "Explicitly running as root (runAsUser: 0)")>>
            ELSE IF sc.run_as_non_root = None \/ sc.run_as_non_root = Some(FALSE)
            THEN IF pod_run_as_user = None \/ pod_run_as_user = Some(0)
                 THEN <<create_root_finding(pod, c,
                          "Not enforcing non-root user (runAsNonRoot not set)")>>
                 ELSE <<>>
            ELSE <<>>
    ELSE <<create_root_finding(pod, c,
              "No security context defined (defaults to root)")>>

RootUserScanner_scan(pod) ==
    LET F(c) == root_user_container(pod, c)
    IN extend_all([i \in DOMAIN pod.spec.containers |-> F(pod.spec.containers[i])])

\* PrivilegedScanner.scan
PrivilegedScanner_scan(pod) ==
    LET F(c) ==
            IF c.security_context # None /\ truthy(Val(c.security_context).privileged)
            THEN <<create_finding("PrivilegedScanner", "CRITICAL", pod, c.name,
                       "Container running in privileged mode",
                       <<c.name, pod.metadata.name>>, <<>>,
                       <<"CIS-5.2.1", "PCI-DSS-2.2", "NIST-800-190">>)>>
            ELSE <<>>
    IN extend_all([i \in DOMAIN pod.spec.containers |-> F(pod.spec.containers[i])])

\* PrivilegeEscalationScanner._create_finding_esc
create_finding_esc(pod, c, reason) ==
    create_finding("PrivilegeEscalationScanner", "HIGH", pod, c.name,
                   "Privilege escalation allowed",
                   <<c.name, pod.metadata.name, reason>>, <<>>,
                   <<"CIS-5.2.5", "PCI-DSS-2.2.4", "NIST-800-190">>)

\* PrivilegeEscalationScanner.scan
PrivilegeEscalationScanner_scan(pod) ==
    LET F(c) ==
            IF c.security_context # None
            THEN LET sc == Val(c.security_context)
                 IN IF sc.allow_privilege_escalation = Some(TRUE)
                    THEN <<create_finding_esc(pod, c,
                              "Explicitly allows privilege escalation")>>
                    ELSE IF sc.allow_privilege_escalation = None
                    THEN IF truthy(sc.privileged)
                         THEN <<create_finding_esc(pod, c,
                                  "Privileged container (implicitly allows escalation)")>>
                         ELSE <<create_finding_esc(pod, c,
                                  "allowPrivilegeEscalation not explicitly set to false")>>
                    ELSE <<>>
            ELSE <<create_finding_esc(pod, c,
                      "No security context (defaults allow escalation)")>>
    IN extend_all([i \in DOMAIN pod.spec.containers |-> F(pod.spec.containers[i])])

\* ReadOnlyFilesystemScanner._create_readonly_finding
create_readonly_finding(pod, c, explicitly_false) ==
    create_finding("ReadOnlyFilesystemScanner", "MEDIUM", pod, c.name,
                   "Root filesystem is writable",
                   <<c.name, pod.metadata.name,
                     IF explicitly_false
                     THEN "Explicitly set to writable (readOnlyRootFilesystem: false)"
                     ELSE "Not configured (defaults to writable)">>,
                   <<>>,
                   <<"CIS-5.2.6", "NIST-800-190", "PCI-DSS-2.2.5">>)

\* ReadOnlyFilesystemScanner.scan
ReadOnlyFilesystemScanner_scan(pod) ==
    LET F(c) ==
            IF c.security_context # None
            THEN LET read_only_fs ==
                         Val(c.security_context).read_only_root_filesystem
                 IN IF read_only_fs = None \/ read_only_fs = Some(FALSE)
                    THEN <<create_readonly_finding(pod, c,
                                                   read_only_fs = Some(FALSE))>>
                    ELSE <<>>
            ELSE <<create_readonly_finding(pod, c, FALSE)>>
    IN extend_all([i \in DOMAIN pod.spec.containers |-> F(pod.spec.containers[i])])

\* CPULimitsScanner._create_cpu_finding
create_cpu_finding(pod, c, reason) ==
    create_finding("CPULimitsScanner", "HIGH", pod, c.name,
                   "Missing CPU limit",
                   <<c.name, pod.metadata.name, reason>>, <<>>,
                   <<"CIS-5.2.7", "PCI-DSS-2.2",
                     "Resource Management Best Practices">>)

\* the CPU rule giving one reason for every kind of absence
CPULimitsScanner_scan_one_reason(pod) ==
    LET F(c) ==
            IF c.resources # None /\ truthy_dict(Val(c.resources).limits)
                                  /\ "cpu" \in Val(Val(c.resources).limits)
            THEN <<>>
            ELSE <<create_cpu_finding(pod, c, "CPU limit not defined")>>
    IN extend_all([i \in DOMAIN pod.spec.containers |-> F(pod.spec.containers[i])])

\* CPULimitsScanner.scan
CPULimitsScanner_scan(pod) ==
    LET F(c) ==
            IF c.resources # None
            THEN IF truthy_dict(Val(c.resources).limits)
                 THEN IF "cpu" \notin Val(Val(c.resources).limits)
                      THEN <<create_cpu_finding(pod, c, "CPU limit not defined")>>
                      ELSE <<>>
                 ELSE <<create_cpu_finding(pod, c, "No resource limits section")>>
            ELSE <<create_cpu_finding(pod, c, "No resources defined")>>
    IN extend_all([i \in DOMAIN pod.spec.containers |-> F(pod.spec.containers[i])])

\* MemoryLimitsScanner._create_memory_finding
create_memory_finding(pod, c, reason) ==
    create_finding("MemoryLimitsScanner", "HIGH", pod, c.name,
                   "Missing memory limit",
                   <<c.name, pod.metadata.name, reason>>, <<>>,
                   <<"CIS-5.2.8", "PCI-DSS-2.2",
                     "Resource Management Best Practices">>)

\* MemoryLimitsScanner.scan
MemoryLimitsScanner_scan(pod) ==
    LET F(c) ==
            IF c.resources # None
            THEN IF truthy_dict(Val(c.resources).limits)
                 THEN IF "memory" \notin Val(Val(c.resources).limits)
                      THEN <<create_memory_finding(pod, c,
                                                   "Memory limit not defined")>>
                      ELSE <<>>
                 ELSE <<create_memory_finding(pod, c,
                                              "No resource limits section")>>
            ELSE <<create_memory_finding(pod, c, "No resources defined")>>
    IN extend_all([i \in DOMAIN pod.spec.containers |-> F(pod.spec.containers[i])])

\* " and ".join(missing)
join_and(missing) ==
    IF Len(missing) = 2 THEN missing[1] \o " and " \o missing[2]
    ELSE missing[1]

\* ResourceRequestsScanner._create_requests_finding
create_requests_finding(pod, c, missing) ==
    create_finding("ResourceRequestsScanner", "MEDIUM", pod, c.name,
                   "Missing resource requests: " \o join_and(missing),
                   <<c.name, pod.metadata.name, join_and(missing)>>, <<>>,
                   <<"CIS-5.2.9", "Resource Management Best Practices",
                     "Kubernetes QoS Classes">>)

\* ResourceRequestsScanner.scan
ResourceRequestsScanner_scan(pod) ==
    LET missing_requests(c) ==
            IF c.resources # None
            THEN IF truthy_dict(Val(c.resources).requests)
                 THEN (IF "cpu" \notin Val(Val(c.resources).requests)
                       THEN <<"cpu">> ELSE <<>>)
                      \o (IF "memory" \notin Val(Val(c.resources).requests)
                          THEN <<"memory">> ELSE <<>>)
                 ELSE <<"cpu", "memory">>
            ELSE <<"cpu", "memory">>
        F(c) ==
            IF missing_requests(c) # <<>>
            THEN <<create_requests_finding(pod, c, missing_requests(c))>>
            ELSE <<>>
    IN extend_all([i \in DOMAIN pod.spec.containers |-> F(pod.spec.containers[i])])

\* LatestTagScanner.scan
LatestTagScanner_scan(pod) ==
    LET F(c) ==
            IF str_endswith(c.image, ":latest") \/ str_in(":latest", c.image)
            THEN <<create_finding("LatestTagScanner", "MEDIUM", pod, c.name,
                       "Using :latest image tag",
                       <<c.name, pod.metadata.name, c.image>>,
                       <<c.image, str_split_first(c.image, ":")>>,
                       <<"CIS-5.4.1", "Image Security Best Practices",
                         "Deployment Reproducibility">>)>>
            ELSE <<>>
    IN extend_all([i \in DOMAIN pod.spec.containers |-> F(pod.spec.containers[i])])

\* UntaggedImageScanner.scan
UntaggedImageScanner_scan(pod) ==
    LET F(c) ==
            IF ~str_in(":", c.image) /\ ~str_in("@", c.image)
            THEN <<create_finding("UntaggedImageScanner", "MEDIUM", pod, c.name,
                       "Image has no tag specified",
                       <<c.name, pod.metadata.name, c.image>>,
                       <<c.image>>,
                       <<"CIS-5.4.1", "Image Security Best Practices",
                         "Configuration Management">>)>>
            ELSE <<>>
    IN extend_all([i \in DOMAIN pod.spec.containers |-> F(pod.spec.containers[i])])

\* ImageRegistryScanner.TRUSTED_REGISTRIES
TRUSTED_REGISTRIES ==
    <<"gcr.io", "us.gcr.io", "eu.gcr.io", "asia.gcr.io", "registry.k8s.io",
      "k8s.gcr.io", "quay.io", "ghcr.io", "mcr.microsoft.com",
      "docker.io/library">>

\* ImageRegistryScanner._extract_registry
extract_registry(image) ==
    IF ~str_in("/", image) THEN "docker.io"
    ELSE IF str_in(".", str_split_first(image, "/"))
            \/ str_in(":", str_split_first(image, "/"))
    THEN str_split_first(image, "/")
    ELSE "docker.io"

\* a check that wants the registry to equal a trusted entry
is_trusted_registry_exact(registry) ==
    \E k \in DOMAIN TRUSTED_REGISTRIES : registry = TRUSTED_REGISTRIES[k]

\* ImageRegistryScanner._is_trusted_registry
is_trusted_registry(registry) ==
    \E k \in DOMAIN TRUSTED_REGISTRIES :
        str_startswith(registry, TRUSTED_REGISTRIES[k])

\* ImageRegistryScanner.scan
ImageRegistryScanner_scan(pod) ==
    LET F(c) ==
            IF ~is_trusted_registry(extract_registry(c.image))
            THEN <<create_finding("ImageRegistryScanner", "MEDIUM", pod, c.name,
                       "Image from untrusted registry: "
                           \o extract_registry(c.image),
                       <<c.name, pod.metadata.name, c.image,
                         extract_registry(c.image)>>,
                       <<>>,
                       <<"CIS-5.4.2", "Supply Chain Security",
                         "Image Provenance">>)>>
            ELSE <<>>
    IN extend_all([i \in DOMAIN pod.spec.containers |-> F(pod.spec.containers[i])])

\* SecretsInEnvScanner.SECRET_PATTERNS
SECRET_PATTERNS ==
    <<"PASSWORD", "PASSWD", "PWD", "SECRET", "API_KEY", "APIKEY", "TOKEN",
      "AUTH", "CREDENTIAL", "PRIVATE_KEY", "PRIV_KEY", "ACCESS_KEY",
      "SECRET_KEY", "DATABASE_URL", "DB_PASSWORD", "ENCRYPTION_KEY",
      "CIPHER_KEY">>

\* SecretsInEnvScanner.SAFE_PATTERNS
SAFE_PATTERNS ==
    <<"PATH", "HOME", "SHELL", "LANG", "TZ", "TERM", "USER", "HOSTNAME",
      "PORT", "HOST", "REPLICAS">>

\* the name check with the secret patterns tested before the safe ones
is_likely_secret_patterns_first(var_name) ==
    LET var_upper == str_upper(var_name)
    IN IF \E k \in DOMAIN SECRET_PATTERNS :
              str_contains(Chars(SECRET_PATTERNS[k]), var_upper)
       THEN TRUE
       ELSE FALSE

\* SecretsInEnvScanner._is_likely_secret
is_likely_secret(var_name) ==
    LET var_upper == str_upper(var_name)
    IN IF \E k \in DOMAIN SAFE_PATTERNS :
              str_contains(Chars(SAFE_PATTERNS[k]), var_upper)
       THEN FALSE
       ELSE \E k \in DOMAIN SECRET_PATTERNS :
                str_contains(Chars(SECRET_PATTERNS[k]), var_upper)

\* a mask that shows the first three characters
mask_value_three_shown(value) ==
    IF Len(value) <= 4 THEN "****"
    ELSE SubSeq(value, 1, 3) \o "..." \o SubSeq(value, Len(value) - 1, Len(value))

\* SecretsInEnvScanner._mask_value
mask_value(value) ==
    IF Len(value) <= 4 THEN "****"
    ELSE SubSeq(value, 1, 2) \o "..." \o SubSeq(value, Len(value) - 1, Len(value))

\* SecretsInEnvScanner._create_secret_finding
create_secret_finding(pod, c, var_name, value) ==
    create_finding("SecretsInEnvScanner", "CRITICAL", pod, c.name,
                   "Hardcoded secret in environment variable: " \o var_name,
                   <<c.name, pod.metadata.name, var_name, mask_value(value)>>,
                   <<var_name, mask_value(value)>>,
                   <<"CIS-5.4.3", "PCI-DSS-3.4", "GDPR-Article-32",
                     "SOC2-CC6.1">>)

\* SecretsInEnvScanner.scan
SecretsInEnvScanner_scan(pod) ==
    LET G(c) ==
            LET F(env_var) ==
                    IF is_likely_secret(env_var.name)
                    THEN IF env_var.value_from # None THEN <<>>
                         ELSE IF truthy_str(env_var.value)
                         THEN <<create_secret_finding(pod, c, env_var.name,
                                                      Val(env_var.value))>>
                         ELSE <<>>
                    ELSE <<>>
            IN IF truthy_list(c.env)
               THEN extend_all([i \in DOMAIN Val(c.env) |-> F(Val(c.env)[i])])
               ELSE <<>>
    IN extend_all([i \in DOMAIN pod.spec.containers |-> G(pod.spec.containers[i])])

\* HostNetworkScanner.scan
HostNetworkScanner_scan(pod) ==
    IF truthy(pod.spec.host_network)
    THEN <<create_finding("HostNetworkScanner", "HIGH", pod, "<all>",
               "Pod using host network",
               <<pod.metadata.name>>, <<>>,
               <<"CIS-5.2.4", "PCI-DSS-1.2.1",
                 "Network Isolation Best Practices">>)>>
    ELSE <<>>

\* str.upper() of a string, as a string
upper(s) ==
    LET acc[i \in 0..Len(s)] ==
            IF i = 0 THEN "" ELSE acc[i - 1] \o upper_char(SubSeq(s, i, i))
    IN acc[Len(s)]

\* s.replace(old, ''): every occurrence of old removed, left to right
RECURSIVE str_remove_all(_, _)
str_remove_all(s, old) ==
    IF Len(s) < Len(old) THEN s
    ELSE IF SubSeq(s, 1, Len(old)) = old
    THEN str_remove_all(SubSeq(s, Len(old) + 1, Len(s)), old)
    ELSE SubSeq(s, 1, 1) \o str_remove_all(SubSeq(s, 2, Len(s)), old)

\* ", ".join(items)
join_comma(items) ==
    LET acc[i \in 0..Len(items)] ==
            IF i = 0 THEN ""
            ELSE IF i = 1 THEN items[1]
            ELSE acc[i - 1] \o ", " \o items[i]
    IN acc[Len(items)]

\* CapabilitiesScanner.DANGEROUS_CAPABILITIES
DANGEROUS_CAPABILITIES ==
    <<"SYS_ADMIN", "SYS_MODULE", "SYS_RAWIO", "SYS_PTRACE", "SYS_BOOT",
      "MAC_ADMIN", "MAC_OVERRIDE", "DAC_READ_SEARCH", "DAC_OVERRIDE",
      "NET_ADMIN", "NET_RAW">>

\* cap_clean = cap.upper().replace('CAP_', '')
cap_clean(cap) == str_remove_all(upper(cap), "CAP_")

\* x in a list
in_list(x, items) == \E k \in DOMAIN items : items[k] = x

\* the same finding graded INFO when no kernel-level capability is granted
create_caps_finding_info(pod, c, capabilities) ==
    create_finding("CapabilitiesScanner",
                   IF in_list("SYS_ADMIN", capabilities)
                      \/ in_list("SYS_MODULE", capabilities)
                   THEN "HIGH" ELSE "INFO",
                   pod, c.name,
                   "Dangerous capabilities granted: " \o join_comma(capabilities),
                   <<c.name, pod.metadata.name, join_comma(capabilities)>>, <<>>,
                   <<"CIS-5.2.9", "Linux Capabilities Best Practices">>)

\* CapabilitiesScanner._create_caps_finding
create_caps_finding(pod, c, capabilities) ==
    create_finding("CapabilitiesScanner",
                   IF in_list("SYS_ADMIN", capabilities)
                      \/ in_list("SYS_MODULE", capabilities)
                   THEN "HIGH" ELSE "MEDIUM",
                   pod, c.name,
                   "Dangerous capabilities granted: " \o join_comma(capabilities),
                   <<c.name, pod.metadata.name, join_comma(capabilities)>>, <<>>,
                   <<"CIS-5.2.9", "Linux Capabilities Best Practices">>)

\* dangerous_caps after the loop over caps.add
dangerous_caps(add) ==
    extend_all([i \in DOMAIN add |->
                   IF in_list(cap_clean(add[i]), DANGEROUS_CAPABILITIES)
                   THEN <<cap_clean(add[i])>> ELSE <<>>])

\* CapabilitiesScanner.scan
CapabilitiesScanner_scan(pod) ==
    LET F(c) ==
            IF c.security_context # None
               /\ Val(c.security_context).capabilities # None
            THEN LET caps == Val(Val(c.security_context).capabilities)
                 IN IF truthy_list(caps.add)
                       /\ dangerous_caps(Val(caps.add)) # <<>>
                    THEN <<create_caps_finding(pod, c,
                                               dangerous_caps(Val(caps.add)))>>
                    ELSE <<>>
            ELSE <<>>
    IN extend_all([i \in DOMAIN pod.spec.containers |-> F(pod.spec.containers[i])])

\* HostPathScanner._create_hostpath_finding
create_hostpath_finding(pod, volume, containers) ==
    create_finding("HostPathScanner", "HIGH", pod,
                   IF containers # <<>> THEN join_comma(containers) ELSE "none",
                   "Using hostPath volume: " \o Val(volume.host_path),
                   <<volume.name, pod.metadata.name, Val(volume.host_path),
                     IF containers # <<>> THEN join_comma(containers) ELSE "none">>,
                   <<>>,
                   <<"CIS-5.2.3", "Container Isolation",
                     "Data Security Best Practices">>)

\* HostPathScanner.scan: containers_using of one volume
containers_using(pod, volume) ==
    LET mounts_of(c) ==
            IF truthy_list(c.volume_mounts)
            THEN extend_all([k \in DOMAIN Val(c.volume_mounts) |->
                                IF Val(c.volume_mounts)[k] = volume.name
                                THEN <<c.name>> ELSE <<>>])
            ELSE <<>>
    IN extend_all([i \in DOMAIN pod.spec.containers |->
                      mounts_of(pod.spec.containers[i])])

\* HostPathScanner.scan
HostPathScanner_scan(pod) ==
    LET F(volume) ==
            IF volume.host_path # None
            THEN <<create_hostpath_finding(pod, volume,
                                           containers_using(pod, volume))>>
            ELSE <<>>
    IN IF truthy_list(pod.spec.volumes)
       THEN extend_all([i \in DOMAIN Val(pod.spec.volumes) |->
                           F(Val(pod.spec.volumes)[i])])
       ELSE <<>>

\* HostNamespacesScanner.scan
HostNamespacesScanner_scan(pod) ==
    (IF truthy(pod.spec.host_pid)
     THEN <<create_finding("HostNamespacesScanner", "MEDIUM", pod, "<all>",
                "Pod using host PID namespace",
                <<pod.metadata.name>>, <<>>,
                <<"CIS-5.2.2", "Process Isolation",
                  "Container Security Best Practices">>)>>
     ELSE <<>>)
    \o (IF truthy(pod.spec.host_ipc)
        THEN <<create_finding("HostNamespacesScanner", "MEDIUM", pod, "<all>",
                   "Pod using host IPC namespace",
                   <<pod.metadata.name>>, <<>>,
                   <<"CIS-5.2.3", "IPC Isolation",
                     "Container Security Best Practices">>)>>
        ELSE <<>>)

\* SeccompScanner.scan
SeccompScanner_scan(pod) ==
    LET has_seccomp(c) ==
            IF c.security_context # None
               /\ Val(c.security_context).seccomp_profile # None
            THEN TRUE
            ELSE pod.spec.security_context # None
                 /\ Val(pod.spec.security_context).seccomp_profile # None
        F(c) ==
            IF ~has_seccomp(c)
            THEN <<create_finding("SeccompScanner", "LOW", pod, c.name,
                       "No seccomp profile defined",
                       <<c.name, pod.metadata.name>>, <<>>,
                       <<"CIS-5.7.2", "System Call Filtering">>)>>
            ELSE <<>>
    IN extend_all([i \in DOMAIN pod.spec.containers |-> F(pod.spec.containers[i])])

\* AppArmorSELinuxScanner.scan
AppArmorSELinuxScanner_scan(pod) ==
    LET has_apparmor(c) ==
            /\ truthy_dict(pod.metadata.annotations)
            /\ ("container.apparmor.security.beta.kubernetes.io/" \o c.name)
                   \in Val(pod.metadata.annotations)
        has_selinux(c) ==
            /\ c.security_context # None
            /\ Val(c.security_context).se_linux_options # None
        F(c) ==
            IF ~has_apparmor(c) /\ ~has_selinux(c)
            THEN <<create_finding("AppArmorSELinuxScanner", "LOW", pod, c.name,
                       "No AppArmor or SELinux profile",
                       <<c.name, pod.metadata.name>>, <<>>,
                       <<"CIS-5.7.2", "Defense-in-Depth">>)>>
            ELSE <<>>
    IN extend_all([i \in DOMAIN pod.spec.containers |-> F(pod.spec.containers[i])])

\* AutomountTokenScanner.scan
AutomountTokenScanner_scan(pod) ==
    IF pod.spec.automount_service_account_token = None
       \/ pod.spec.automount_service_account_token = Some(TRUE)
    THEN <<create_finding("AutomountTokenScanner", "MEDIUM", pod, "<all>",
               "Service account token automounted",
               <<pod.metadata.name>>, <<>>,
               <<"CIS-5.1.6", "Least Privilege">>)>>
    ELSE <<>>

\* DefaultServiceAccountScanner.scan
DefaultServiceAccountScanner_scan(pod) ==
    LET service_account ==
            IF truthy_str(pod.spec.service_account_name)
            THEN pod.spec.service_account_name
            ELSE pod.spec.service_account
    IN IF ~truthy_str(service_account) \/ service_account = Some("default")
       THEN <<create_finding("DefaultServiceAccountScanner", "MEDIUM", pod,
                  "<all>", "Using default service account",
                  <<pod.metadata.name,
                    IF truthy_str(service_account) THEN Val(service_account)
                    ELSE "default">>,
                  <<>>,
                  <<"CIS-5.1.5", "RBAC Best Practices">>)>>
       ELSE <<>>

\* MissingSecurityContextScanner.scan
MissingSecurityContextScanner_scan(pod) ==
    LET F(c) ==
            IF c.security_context = None
            THEN <<create_finding("MissingSecurityContextScanner", "MEDIUM", pod,
                       c.name, "No security context defined",
                       <<c.name, pod.metadata.name>>, <<>>,
                       <<"CIS-5.2.6", "Pod Security Standards">>)>>
            ELSE <<>>
    IN extend_all([i \in DOMAIN pod.spec.containers |-> F(pod.spec.containers[i])])

\* scanner.scan(pod), dispatched on the scanner's class
scanner_scan(name, pod) ==
    CASE name = "RootUserScanner" -> RootUserScanner_scan(pod)
      [] name = "PrivilegedScanner" -> PrivilegedScanner_scan(pod)
      [] name = "PrivilegeEscalationScanner" -> PrivilegeEscalationScanner_scan(pod)
      [] name = "ReadOnlyFilesystemScanner" -> ReadOnlyFilesystemScanner_scan(pod)
      [] name = "CPULimitsScanner" -> CPULimitsScanner_scan(pod)
      [] name = "MemoryLimitsScanner" -> MemoryLimitsScanner_scan(pod)
      [] name = "ResourceRequestsScanner" -> ResourceRequestsScanner_scan(pod)
      [] name = "LatestTagScanner" -> LatestTagScanner_scan(pod)
      [] name = "UntaggedImageScanner" -> UntaggedImageScanner_scan(pod)
      [] name = "ImageRegistryScanner" -> ImageRegistryScanner_scan(pod)
      [] name = "SecretsInEnvScanner" -> SecretsInEnvScanner_scan(pod)
      [] name = "HostNetworkScanner" -> HostNetworkScanner_scan(pod)
      [] name = "CapabilitiesScanner" -> CapabilitiesScanner_scan(pod)
      [] name = "HostPathScanner" -> HostPathScanner_scan(pod)
      [] name = "HostNamespacesScanner" -> HostNamespacesScanner_scan(pod)
      [] name = "SeccompScanner" -> SeccompScanner_scan(pod)
      [] name = "AppArmorSELinuxScanner" -> AppArmorSELinuxScanner_scan(pod)
      [] name = "AutomountTokenScanner" -> AutomountTokenScanner_scan(pod)
      [] name = "DefaultServiceAccountScanner" -> DefaultServiceAccountScanner_scan(pod)
      [] name = "MissingSecurityContextScanner" -> MissingSecurityContextScanner_scan(pod)

\* ------------------------------------------------------------------------
\* ScannerManager (src/utils/scanner_manager.py)
\* ------------------------------------------------------------------------
\* self.scanners, as built by ScannerManager.__init__
scanners ==
    <<"RootUserScanner", "PrivilegedScanner", "PrivilegeEscalationScanner",
      "ReadOnlyFilesystemScanner", "CPULimitsScanner", "MemoryLimitsScanner",
      "ResourceRequestsScanner", "LatestTagScanner", "UntaggedImageScanner",
      "ImageRegistryScanner">>

\* the scanner classes defined under src/scanners
DefinedScanners == DOMAIN scanner_category

\* ScannerManager.scan_pod
scan_pod(pod) ==
    LET F(scanner) == scanner_scan(scanner, pod)
    IN extend_all([i \in DOMAIN scanners |-> F(scanners[i])])

\* a scan() that collects into self.findings and returns that list
scanner_call_accumulating(k, pod, accumulator) ==
    [findings |-> accumulator \o scanner_scan(scanners[k], pod),
     accumulator |-> accumulator \o scanner_scan(scanners[k], pod)]

\* scanner.scan(pod) of the k-th registered scanner, whose self.findings is
\* `accumulator`: every scan() fills a local list and returns it
scanner_call(k, pod, accumulator) ==
    [findings |-> scanner_scan(scanners[k], pod),
     accumulator |-> accumulator]

\* ScannerManager.scan_pod on a manager whose scanners hold `accs`:
\* step[k] is the state after the k-th scanner
scan_pod_call(pod, accs) ==
    LET step[k \in 0..Len(scanners)] ==
            IF k = 0 THEN [all_findings |-> <<>>, accumulators |-> accs]
            ELSE LET before == step[k - 1]
                     call == scanner_call(k, pod, before.accumulators[k])
                 IN [all_findings |-> before.all_findings \o call.findings,
                     accumulators |->
                         [before.accumulators EXCEPT ![k] = call.accumulator]]
    IN step[Len(scanners)]

\* the same loop inserting each finding at the front of its bucket
organize_by_severity_prepending(all_findings) ==
    LET buckets[i \in 0..Len(all_findings)] ==
            IF i = 0 THEN [s \in Severities |-> <<>>]
            ELSE LET findings_by_severity == buckets[i - 1]
                     severity == all_findings[i].severity
                 IN IF severity \in DOMAIN findings_by_severity
                    THEN [findings_by_severity EXCEPT
                             ![severity] = <<all_findings[i]>> \o @]
                    ELSE findings_by_severity
    IN buckets[Len(all_findings)]

\* ScannerManager.scan_pods, the loop that organizes findings by severity;
\* buckets[i] is findings_by_severity after the i-th finding
organize_by_severity(all_findings) ==
    LET buckets[i \in 0..Len(all_findings)] ==
            IF i = 0 THEN [s \in Severities |-> <<>>]
            ELSE LET findings_by_severity == buckets[i - 1]
                     severity == all_findings[i].severity
                 IN IF severity \in DOMAIN findings_by_severity
                    THEN [findings_by_severity EXCEPT
                             ![severity] = Append(@, all_findings[i])]
                    ELSE findings_by_severity
    IN buckets[Len(all_findings)]

\* scan_pods putting each pod's findings in front of the earlier ones
scan_pods_prepending(ps) ==
    LET acc[i \in 0..Len(ps)] ==
            IF i = 0 THEN <<>> ELSE scan_pod(ps[i]) \o acc[i - 1]
        all_findings == acc[Len(ps)]
    IN [total_findings |-> Len(all_findings),
        findings_by_severity |-> organize_by_severity(all_findings),
        all_findings |-> all_findings]

\* ScannerManager.scan_pods
scan_pods(ps) ==
    LET all_findings == extend_all([i \in DOMAIN ps |-> scan_pod(ps[i])])
    IN [total_findings |-> Len(all_findings),
        findings_by_severity |-> organize_by_severity(all_findings),
        all_findings |-> all_findings]

\* `pod_name = pod.metadata.name` and the first `pod.spec.<field>` of the
\* scan method raise AttributeError on None (every scanner class starts
\* with these two reads; every later read of an optional object is guarded)
scanner_raises(name, pod) ==
    name \in DefinedScanners /\ (pod.metadata = None \/ pod.spec = None)

\* scanner.scan(pod): the list returned, or the exception leaving the call
scanner_scan_outcome(name, pod) ==
    IF scanner_raises(name, pod) THEN [raised |-> "AttributeError"]
    ELSE [returned |-> scanner_scan(name, pod)]

\* ScannerManager.scan_pod: no try, the first exception leaves the loop
scan_pod_outcome(pod) ==
    IF \E k \in DOMAIN scanners : Raised(scanner_scan_outcome(scanners[k], pod))
    THEN [raised |-> "AttributeError"]
    ELSE [returned |-> scan_pod(pod)]

\* a scan_pods that leaves out the pods it cannot scan
scan_pods_outcome_skipping(ps) ==
    LET Scannable(pod) == ~Raised(scan_pod_outcome(pod))
    IN [returned |-> scan_pods(SelectSeq(ps, Scannable))]

\* ScannerManager.scan_pods: no try around scan_pod
scan_pods_outcome(ps) ==
    IF \E i \in DOMAIN ps : Raised(scan_pod_outcome(ps[i]))
    THEN [raised |-> "AttributeError"]
    ELSE [returned |-> scan_pods(ps)]

\* ------------------------------------------------------------------------
\* Pods given to the orchestrator
\* ------------------------------------------------------------------------
\* no security context, no resources, untagged Docker Hub image
bare_container ==
    Container("app", "nginx", None, None, None)

\* root, privileged, :latest, empty limits, hardcoded secret
root_container ==
    Container("web", "nginx:latest",
              Some(SecurityContext(Some(0), Some(TRUE), Some(TRUE), None,
                                   Some(FALSE))),
              Some(Resources(Some({}), Some({"cpu"}))),
              Some(<<EnvVar("DB_PASSWORD", Some("hunter2secret"), None),
                     EnvVar("DB_PORT", Some("5432"), None)>>))

\* every check satisfied
hardened_container ==
    Container("api", "gcr.io/proj/app:1.0",
              Some(SecurityContext(Some(1000), Some(TRUE), Some(FALSE),
                                   Some(FALSE), Some(TRUE))),
              Some(Resources(Some({"cpu", "memory"}), Some({"cpu", "memory"}))),
              Some(<<EnvVar("API_TOKEN", None, Some("secretKeyRef"))>>))

\* security context with nothing set, partial resources, host:port registry
partial_container ==
    Container("db", "myregistry:5000/app",
              Some(SecurityContext(None, None, None, Some(TRUE), None)),
              Some(Resources(Some({"memory"}), None)),
              Some(<<>>))

\* a pod-level security context that enforces a non-root user
nonroot_pod_context ==
    Some(PodSecurityContext(Some(1000), Some(TRUE), None))

PodUniverse ==
    { Pod("pod-bare", "default", <<bare_container>>, None, None),
      Pod("pod-root", "default", <<root_container>>, None, Some(TRUE)),
      Pod("pod-hardened", "default", <<hardened_container>>,
          nonroot_pod_context, Some(FALSE)),
      Pod("pod-partial", "default", <<partial_container>>, None, None),
      Pod("pod-partial-nonroot", "default", <<partial_container>>,
          nonroot_pod_context, None),
      Pod("pod-two", "default", <<root_container, bare_container>>,
          None, None),
      Pod("pod-mixed", "default", <<partial_container, hardened_container,
                                    bare_container>>,
          nonroot_pod_context, Some(TRUE)),
      Pod("pod-sidecar", "default", <<hardened_container, root_container>>,
          Some(PodSecurityContext(None, None, None)), None) }

\* the pods scanned again and again on one manager
ManagerPods ==
    {p \in PodUniverse :
        p.metadata.name \in {"pod-bare", "pod-root", "pod-hardened",
                             "pod-partial"}}

\* ------------------------------------------------------------------------
\* Pods given to the single rules
\* ------------------------------------------------------------------------
\* values of runAsUser and runAsNonRoot
RunAsUserValues == {None, Some(0), Some(1000)}
RunAsNonRootValues == {None, Some(TRUE), Some(FALSE)}

\* one container under every container-level and pod-level combination of
\* runAsUser / runAsNonRoot, the security contexts themselves optional
RootUserPods ==
    {Pod("pod-under-test", "default",
         <<Container("app", "gcr.io/proj/app:1.0", sc, None, None)>>,
         psc, None) :
        sc \in {None} \cup {Some(SecurityContext(u, nr, None, None, None)) :
                                u \in RunAsUserValues, nr \in RunAsNonRootValues},
        psc \in {None} \cup {Some(PodSecurityContext(u, nr, None)) :
                                 u \in RunAsUserValues, nr \in RunAsNonRootValues}}

\* capabilities.add of the container under test
CapabilityLists ==
    {None, Some(<<>>), Some(<<"NET_RAW">>), Some(<<"CAP_SYS_ADMIN">>),
     Some(<<"cap_sys_admin">>), Some(<<"Cap_Sys_Module", "net_raw">>),
     Some(<<"CHOWN">>), Some(<<"NET_BIND_SERVICE", "CAP_NET_ADMIN">>),
     Some(<<"sys_ptrace", "chown", "CAP_DAC_OVERRIDE">>),
     Some(<<"SYS_CAP_ADMIN">>), Some(<<"NET_CAP_RAW">>),
     Some(<<"CAP_CAP_SYS_BOOT">>), Some(<<"CAP_">>)}

\* a container security context that only sets capabilities
capabilities_context(add) ==
    [SecurityContext(Some(1000), Some(TRUE), Some(FALSE), Some(FALSE), Some(TRUE))
        EXCEPT !.capabilities = Some(Capabilities(add))]

CapabilityPods ==
    {Pod("pod-under-test", "default",
         <<Container("app", "gcr.io/proj/app:1.0",
                     Some(capabilities_context(add)), None, None)>>,
         None, None) : add \in CapabilityLists}

\* image references of the container under test
Images ==
    {"myapp:1.0", "gcr.io/proj/app:1.0", "nginx", "nginx:latest",
     "library/nginx", "docker.io/library/nginx:1.25",
     "docker.io/library/nginx:1.21.6", "docker.io/myorg/app",
     "myregistry:5000/app", "localhost/app", "org/app:latest",
     "quay.io/org/app@sha256:abc", "registry.example.com/team/app:2",
     "ghcr.io.example.com/app:1", "mcr.microsoft.com/dotnet/runtime:8.0"}

ImagePods ==
    {Pod("pod-under-test", "default",
         <<Container("app", image, None, None, None)>>, None, None) :
        image \in Images}

\* environment variables of the container under test
EnvNames ==
    {"DB_PASSWORD", "DB_PORT", "API_TOKEN", "TOKEN_PORT", "db_password",
     "LOG_LEVEL", "AUTHOR", "Secret_Host", "PWD"}

EnvVars ==
    {EnvVar(name, value, value_from) :
        name \in EnvNames,
        value \in {None, Some(""), Some("5432"), Some("hunter2secret"),
                   Some("huXet"), Some("hunter2secreT")},
        value_from \in {None, Some("secretKeyRef")}}

EnvPods ==
    {Pod("pod-under-test", "default",
         <<Container("app", "gcr.io/proj/app:1.0", None, None, Some(<<e>>))>>,
         None, None) : e \in EnvVars}
    \cup {Pod("pod-under-test", "default",
              <<Container("app", "gcr.io/proj/app:1.0", None, None, env)>>,
              None, None) :
             env \in {None, Some(<<>>),
                      Some(<<EnvVar("DB_PASSWORD", Some("hunter2secret"), None),
                             EnvVar("DB_PORT", Some("5432"), None),
                             EnvVar("API_TOKEN", Some("abcd"), None)>>)}}

\* key sets of resources.limits and resources.requests
ResourceDicts ==
    {None, Some({}), Some({"cpu"}), Some({"memory"}), Some({"cpu", "memory"}),
     Some({"ephemeral-storage"})}

\* one container under every combination of resources, limits and requests
ResourcePods ==
    {Pod("pod-under-test", "default",
         <<Container("app", "gcr.io/proj/app:1.0", None, resources, None)>>,
         None, None) :
        resources \in {None} \cup {Some(Resources(limits, requests)) :
                                      limits \in ResourceDicts,
                                      requests \in ResourceDicts}}

\* a container that mounts the volumes `mounts`, with seccomp and SELinux
mounting_container(name, mounts) ==
    [Container(name, "gcr.io/proj/app:1.0",
               Some([SecurityContext(Some(1000), Some(TRUE), Some(FALSE),
                                     Some(FALSE), Some(TRUE))
                        EXCEPT !.seccomp_profile = Some("RuntimeDefault"),
                               !.se_linux_options = Some("s0:c123")]),
               None, None)
        EXCEPT !.volume_mounts = mounts]

\* pods that use the host: hostPath volumes, host PID / IPC namespaces
host_access_pod ==
    [Pod("pod-host", "default",
         <<mounting_container("agent", Some(<<"logs", "sock">>)),
           mounting_container("shipper", Some(<<"logs">>)),
           bare_container>>,
         None, Some(TRUE))
        EXCEPT !.spec.volumes = Some(<<Volume("logs", Some("/var/log")),
                                       Volume("cache", None),
                                       Volume("sock", Some("/var/run/docker.sock")),
                                       Volume("etc", Some("/etc"))>>),
               !.spec.host_pid = Some(TRUE),
               !.spec.host_ipc = Some(TRUE),
               !.spec.service_account_name = Some("default")]

\* a pod with its own service account, no token, AppArmor and seccomp
locked_down_pod ==
    [Pod("pod-locked", "default", <<hardened_container>>,
         Some(PodSecurityContext(Some(1000), Some(TRUE), Some("RuntimeDefault"))),
         Some(FALSE))
        EXCEPT !.metadata.annotations =
                   Some({"container.apparmor.security.beta.kubernetes.io/api"}),
               !.spec.volumes = Some(<<>>),
               !.spec.host_pid = Some(FALSE),
               !.spec.service_account = Some("builder"),
               !.spec.automount_service_account_token = Some(FALSE)]

\* a pod whose first container mounts one hostPath volume at two paths
sub_path_pod ==
    [Pod("pod-subpaths", "default",
         <<mounting_container("agent", Some(<<"data", "data">>)),
           mounting_container("web", Some(<<"tmp">>)),
           mounting_container("shipper", Some(<<"data">>))>>,
         None, None)
        EXCEPT !.spec.volumes = Some(<<Volume("data", Some("/srv/data")),
                                       Volume("tmp", None)>>)]

FeaturePods == {host_access_pod, locked_down_pod, sub_path_pod}

\* every optional object present and empty
hollow_pod ==
    [Pod("pod-hollow", "default",
         <<[Container("app", "nginx:1.25",
                      Some([SecurityContext(None, None, None, None, None)
                               EXCEPT !.capabilities = Some(Capabilities(None))]),
                      Some(Resources(None, None)), Some(<<>>))
               EXCEPT !.volume_mounts = Some(<<>>)]>>,
         Some(PodSecurityContext(None, None, None)), None)
        EXCEPT !.metadata.annotations = Some({}),
               !.spec.volumes = Some(<<Volume("scratch", None)>>)]

\* pod objects without metadata, without spec, without both
MalformedPods ==
    {[hollow_pod EXCEPT !.metadata = None],
     [hollow_pod EXCEPT !.spec = None],
     [hollow_pod EXCEPT !.metadata = None, !.spec = None]}

\* pods with optional objects absent, empty or set
WellFormedPods ==
    {hollow_pod, host_access_pod} \cup
    {p \in PodUniverse : p.metadata.name \in {"pod-bare", "pod-hardened"}}

\* every pod a single rule is evaluated on
RulePods ==
    PodUniverse \cup RootUserPods \cup CapabilityPods \cup ImagePods
                \cup EnvPods \cup FeaturePods \cup ResourcePods

\* ------------------------------------------------------------------------
\* Inputs of the namespace scorer
\* ------------------------------------------------------------------------
SeverityRank == [CRITICAL |-> 1, HIGH |-> 2, MEDIUM |-> 3, LOW |-> 4]

\* plain findings only, grouped CRITICAL, HIGH, MEDIUM, LOW
IsPlainSorted(fs) ==
    /\ \A i \in DOMAIN fs : fs[i].severity \in Severities
    /\ \A i \in DOMAIN fs : fs[i] = PlainFinding(fs[i].severity)
    /\ \A i, j \in DOMAIN fs :
          i < j => SeverityRank[fs[i].severity] <= SeverityRank[fs[j].severity]

RECURSIVE Repeat(_, _)
Repeat(x, n) == IF n = 0 THEN <<>> ELSE <<x>> \o Repeat(x, n - 1)

\* finding lists of the pods whose scores are aggregated per namespace
PodFindingLists ==
    { <<>>,
      <<PlainFinding("LOW")>>,
      Repeat(PlainFinding("CRITICAL"), 2),
      Repeat(PlainFinding("CRITICAL"), 2) \o <<PlainFinding("LOW")>>,
      Repeat(PlainFinding("CRITICAL"), 4),
      Repeat(PlainFinding("CRITICAL"), 4) \o <<PlainFinding("LOW")>>,
      Repeat(PlainFinding("CRITICAL"), 7) }

\* ------------------------------------------------------------------------
\* The scan command (src/main.py) and the JSON reporter
\* (src/reports/json_reporter.py)
\* ------------------------------------------------------------------------
\* all_results, total_pods and pod_scores before the namespace loop;
\* pod_findings keeps, beside each entry of pod_scores, the list it was
\* computed from
initial_locals ==
    [all_results |-> [s \in Severities |-> <<>>],
     total_pods |-> 0,
     pod_scores |-> <<>>,
     pod_findings |-> <<>>]

\* an except branch that starts the collection afresh
skip_namespace_resetting(locals) == initial_locals

\* except ApiException: ... continue
skip_namespace(locals) == locals

\* {'name': ..., 'namespace': ns, **pod_score}
pod_score_entry(pod, ns, pod_score) ==
    pod_score @@ [name |-> pod.metadata.name, namespace |-> ns]

\* the body of the try for a namespace whose listing gave `items`
scan_namespace(locals, ns, items) ==
    IF Len(items) = 0 THEN locals
    ELSE LET results == scan_pods(items)
         IN [all_results |->
                 [s \in DOMAIN locals.all_results |->
                     locals.all_results[s] \o results.findings_by_severity[s]],
             total_pods |-> locals.total_pods + Len(items),
             pod_scores |->
                 locals.pod_scores \o
                 [i \in DOMAIN items |->
                     pod_score_entry(items[i], ns,
                                     calculate_pod_score(scan_pod(items[i])))],
             pod_findings |->
                 locals.pod_findings \o
                 [i \in DOMAIN items |-> scan_pod(items[i])]]

\* a merged list that leaves the MEDIUM bucket out
merged_findings_without_medium(all_results) ==
    all_results["CRITICAL"] \o all_results["HIGH"] \o all_results["LOW"]

\* all_findings_list
merged_findings(all_results) ==
    all_results["CRITICAL"] \o all_results["HIGH"]
        \o all_results["MEDIUM"] \o all_results["LOW"]

\* JSONReporter._determine_pass_fail; reads overall_score['severity_breakdown']
determine_pass_fail(overall_score) ==
    IF overall_score.severity_breakdown["CRITICAL"] > 0 THEN FALSE
    ELSE IF overall_score.score < 60 THEN FALSE
    ELSE TRUE

\* JSONReporter.generate_report raises KeyError: 'severity_breakdown' is
\* read from overall_score (_determine_pass_fail) and from every entry of
\* pod_scores (_format_pod_scores)
generate_report_raises(overall_score, scores) ==
    \/ "severity_breakdown" \notin DOMAIN overall_score
    \/ \E i \in DOMAIN scores : "severity_breakdown" \notin DOMAIN scores[i]

\* JSONReporter.generate_report, the parts of the report the run decides on
generate_report(fs, scores, overall_score, total) ==
    [total_pods_scanned |-> total,
     total_issues_found |-> Len(fs),
     security_score |-> overall_score.score,
     grade |-> overall_score.grade,
     pods_analyzed |-> Len(scores),
     pass |-> determine_pass_fail(overall_score)]

\* JSONReporter.get_exit_code
get_exit_code(report) == IF report.pass THEN 0 ELSE 1

\* the exit code after the --fail-on-critical and --min-score overrides
exit_code_with_flags(code, all_results, overall_score, fail_on_critical, min_score) ==
    IF fail_on_critical /\ Len(all_results["CRITICAL"]) > 0 THEN 1
    ELSE IF min_score > 0 /\ overall_score.score < min_score THEN 1
    ELSE code

\* main.scan after the namespace loop (without --detailed and --save): the
\* report written, the exception caught by `except Exception`, the exit code
finish_scan(locals, output, fail_on_critical, min_score) ==
    LET fs == merged_findings(locals.all_results)
        overall_score == calculate_pod_score(fs)
        compliance_data == analyze_compliance(fs)
        ended(report, raised, code) ==
            [output |-> output, findings |-> fs,
             overall_score |-> overall_score,
             compliance_data |-> compliance_data,
             report |-> report, raised |-> raised, exit_code |-> code]
    IN IF output = "json"
       THEN IF generate_report_raises(overall_score, locals.pod_scores)
            THEN ended(None, Some("KeyError"), 1)
            ELSE LET report == generate_report(fs, locals.pod_scores,
                                               overall_score, locals.total_pods)
                 IN ended(Some(report), None,
                          exit_code_with_flags(get_exit_code(report),
                                               locals.all_results, overall_score,
                                               fail_on_critical, min_score))
       ELSE \* print_results reads overall_score['severity_breakdown'] for
            \* its recommendations and stops there when the key is missing
            IF "severity_breakdown" \notin DOMAIN overall_score
            THEN ended(None, Some("KeyError"), 1)
            ELSE ended(Some([total_pods_scanned |-> locals.total_pods,
                             total_issues_found |-> Len(fs),
                             security_score |-> overall_score.score,
                             grade |-> overall_score.grade]),
                       None,
                       exit_code_with_flags(0, locals.all_results, overall_score,
                                            fail_on_critical, min_score))

\* the namespaces of a run, in the order they are visited
NamespaceNames == [k \in 1..(MaxNamespaces + 1) |-> "ns-" \o ToString(k)]

\* a hardened container that lacks a memory request
minor_container ==
    [hardened_container EXCEPT
        !.name = "worker",
        !.resources = Some(Resources(Some({"cpu", "memory"}), Some({"cpu"})))]

\* a hardened container that runs privileged
privileged_container ==
    [hardened_container EXCEPT
        !.name = "node-agent",
        !.security_context =
            Some(SecurityContext(Some(1000), Some(TRUE), Some(TRUE),
                                 Some(FALSE), Some(TRUE)))]

\* a non-root container with nothing else configured
modest_container ==
    Container("job", "nginx",
              Some(SecurityContext(Some(1000), Some(TRUE), None, None, None)),
              None, None)

\* what list_namespaced_pod(...).items can hold for one namespace
NamespaceListings ==
    LET clean == Pod("pod-clean", "default", <<hardened_container>>,
                     nonroot_pod_context, Some(FALSE))
        minor == Pod("pod-minor", "default", <<minor_container>>,
                     nonroot_pod_context, Some(FALSE))
        privileged == Pod("pod-privileged", "default", <<privileged_container>>,
                          nonroot_pod_context, Some(FALSE))
        modest == Pod("pod-modest", "default", <<modest_container>>, None, None)
    IN {<<>>, <<clean>>, <<minor>>, <<minor, clean>>, <<privileged>>,
        <<modest>>, <<minor, privileged>>}

\* the pods as they belong to namespace ns
in_namespace(items, ns) ==
    [i \in DOMAIN items |-> [items[i] EXCEPT !.metadata.namespace = ns]]

\* status codes of the ApiException raised by list_namespaced_pod
ApiFailures == {404, 403, 500}

\* values of --output, --fail-on-critical and --min-score
OutputModes == {"json", "table"}
MinScores == {0, 70}

\* ------------------------------------------------------------------------
\* State machine
\* ------------------------------------------------------------------------
Init ==
    /\ findings = <<>>
    /\ score_result = None
    /\ prev_result = None
    /\ pod_scores = <<>>
    /\ ns_result = None
    /\ pods = <<>>
    /\ scan_result = None
    /\ rule_findings = None
    /\ accumulators = [k \in DOMAIN scanners |-> <<>>]
    /\ scan_log = <<>>
    /\ compliance_findings = <<>>
    /\ compliance_result = None
    /\ call_outcome = None
    /\ namespace_log = <<>>
    /\ scan_locals = initial_locals
    /\ run_outcome = None

\* scorer.calculate_pod_score([]) : a pod without findings is scored
ScoreEmptyList ==
    /\ findings = <<>>
    /\ score_result = None
    /\ score_result' = Some(calculate_pod_score(findings))
    /\ prev_result' = score_result
    /\ UNCHANGED manager_vars
    /\ UNCHANGED compliance_vars
    /\ UNCHANGED call_vars
    /\ UNCHANGED cli_vars
    /\ UNCHANGED <<findings, pod_scores, ns_result, pods, scan_result>>

\* scorer.calculate_pod_score(findings + [f])
ScoreFindingList(f) ==
    /\ Len(findings) < MaxFindings
    /\ findings' = Append(findings, f)
    /\ score_result' = Some(calculate_pod_score(Append(findings, f)))
    /\ prev_result' = score_result
    /\ UNCHANGED manager_vars
    /\ UNCHANGED compliance_vars
    /\ UNCHANGED call_vars
    /\ UNCHANGED cli_vars
    /\ UNCHANGED <<pod_scores, ns_result, pods, scan_result>>

\* scorer.calculate_pod_score(findings + [f]) for long lists of plain
\* findings, one severity after the other
ScorePlainList(s) ==
    /\ IsPlainSorted(Append(findings, PlainFinding(s)))
    /\ Len(findings) < MaxPlain
    /\ findings' = Append(findings, PlainFinding(s))
    /\ score_result' =
         Some(calculate_pod_score(Append(findings, PlainFinding(s))))
    /\ prev_result' = score_result
    /\ UNCHANGED manager_vars
    /\ UNCHANGED compliance_vars
    /\ UNCHANGED call_vars
    /\ UNCHANGED cli_vars
    /\ UNCHANGED <<pod_scores, ns_result, pods, scan_result>>

NextScore ==
    \/ ScoreEmptyList
    \/ \E f \in ScoreFindings : ScoreFindingList(f)
    \/ \E s \in Severities : ScorePlainList(s)

SpecScore == Init /\ [][NextScore]_vars

\* scorer.calculate_namespace_score(pod_scores + [calculate_pod_score(fs)])
ScoreNamespace(fs) ==
    /\ Len(pod_scores) < MaxPodScores
    /\ pod_scores' = Append(pod_scores, calculate_pod_score(fs))
    /\ ns_result' =
         Some(calculate_namespace_score(
                  Append(pod_scores, calculate_pod_score(fs))))
    /\ UNCHANGED manager_vars
    /\ UNCHANGED compliance_vars
    /\ UNCHANGED call_vars
    /\ UNCHANGED cli_vars
    /\ UNCHANGED <<findings, score_result, prev_result, pods, scan_result>>

\* scorer.calculate_namespace_score([])
ScoreEmptyNamespace ==
    /\ pod_scores = <<>>
    /\ ns_result = None
    /\ ns_result' = Some(calculate_namespace_score(pod_scores))
    /\ UNCHANGED manager_vars
    /\ UNCHANGED compliance_vars
    /\ UNCHANGED call_vars
    /\ UNCHANGED cli_vars
    /\ UNCHANGED <<findings, score_result, prev_result, pod_scores, pods,
                   scan_result>>

NextNamespace ==
    \/ ScoreEmptyNamespace
    \/ \E fs \in PodFindingLists : ScoreNamespace(fs)

SpecNamespace == Init /\ [][NextNamespace]_vars

\* v1.list_namespaced_pod(...).items receives one more pod; pod names are
\* unique within a namespace
ListPod(p) ==
    /\ scan_result = None
    /\ Len(pods) < MaxPods
    /\ \A i \in DOMAIN pods : pods[i].metadata.name # p.metadata.name
    /\ pods' = Append(pods, p)
    /\ UNCHANGED manager_vars
    /\ UNCHANGED compliance_vars
    /\ UNCHANGED call_vars
    /\ UNCHANGED cli_vars
    /\ UNCHANGED <<findings, score_result, prev_result, pod_scores,
                   ns_result, scan_result>>

\* results = scanner_mgr.scan_pods(pods.items)
ScanPods ==
    /\ scan_result = None
    /\ scan_result' = Some(scan_pods(pods))
    /\ UNCHANGED manager_vars
    /\ UNCHANGED compliance_vars
    /\ UNCHANGED call_vars
    /\ UNCHANGED cli_vars
    /\ UNCHANGED <<findings, score_result, prev_result, pod_scores,
                   ns_result, pods>>

Next ==
    \/ \E p \in PodUniverse : ListPod(p)
    \/ ScanPods

Spec == Init /\ [][Next]_vars

\* one pod is handed to the rules
ListOnePod(p) ==
    /\ pods = <<>>
    /\ pods' = <<p>>
    /\ UNCHANGED manager_vars
    /\ UNCHANGED compliance_vars
    /\ UNCHANGED call_vars
    /\ UNCHANGED cli_vars
    /\ UNCHANGED <<findings, score_result, prev_result, pod_scores,
                   ns_result, scan_result>>

\* scanner.scan(pod) of every scanner class on the pod
EvaluateRules ==
    /\ pods # <<>>
    /\ rule_findings = None
    /\ rule_findings' =
           Some([name \in DefinedScanners |-> scanner_scan(name, pods[1])])
    /\ UNCHANGED <<accumulators, scan_log>>
    /\ UNCHANGED compliance_vars
    /\ UNCHANGED call_vars
    /\ UNCHANGED cli_vars
    /\ UNCHANGED <<findings, score_result, prev_result, pod_scores,
                   ns_result, pods, scan_result>>

NextRules ==
    \/ \E p \in RulePods : ListOnePod(p)
    \/ EvaluateRules
    \/ ScanPods

SpecRules == Init /\ [][NextRules]_vars

\* mapper.analyze_compliance(compliance_findings + [f])
AnalyzeCompliance(f) ==
    /\ Len(compliance_findings) < MaxComplianceFindings
    /\ compliance_findings' = Append(compliance_findings, f)
    /\ compliance_result' =
           Some(analyze_compliance(Append(compliance_findings, f)))
    /\ UNCHANGED manager_vars
    /\ UNCHANGED call_vars
    /\ UNCHANGED cli_vars
    /\ UNCHANGED <<findings, score_result, prev_result, pod_scores,
                   ns_result, pods, scan_result>>

\* mapper.analyze_compliance([])
AnalyzeNoFindings ==
    /\ compliance_findings = <<>>
    /\ compliance_result = None
    /\ compliance_result' = Some(analyze_compliance(compliance_findings))
    /\ UNCHANGED compliance_findings
    /\ UNCHANGED manager_vars
    /\ UNCHANGED call_vars
    /\ UNCHANGED cli_vars
    /\ UNCHANGED <<findings, score_result, prev_result, pod_scores,
                   ns_result, pods, scan_result>>

NextCompliance ==
    \/ \E f \in ComplianceFindings : AnalyzeCompliance(f)
    \/ AnalyzeNoFindings

SpecCompliance == Init /\ [][NextCompliance]_vars

\* a pod object, well formed or not, is handed over
ListAnyPod(p) ==
    /\ call_outcome = None
    /\ Len(pods) < MaxPods
    /\ pods' = Append(pods, p)
    /\ UNCHANGED manager_vars
    /\ UNCHANGED compliance_vars
    /\ UNCHANGED call_vars
    /\ UNCHANGED cli_vars
    /\ UNCHANGED <<findings, score_result, prev_result, pod_scores,
                   ns_result, scan_result>>

\* scanner.scan(pods[i]) of one scanner class
CallRule(name, i) ==
    /\ call_outcome = None
    /\ i \in DOMAIN pods
    /\ call_outcome' = Some([call |-> name, index |-> i,
                             outcome |-> scanner_scan_outcome(name, pods[i])])
    /\ UNCHANGED cli_vars
    /\ UNCHANGED manager_vars
    /\ UNCHANGED compliance_vars
    /\ UNCHANGED <<findings, score_result, prev_result, pod_scores,
                   ns_result, pods, scan_result>>

\* scanner_mgr.scan_pod(pods[i])
CallScanPod(i) ==
    /\ call_outcome = None
    /\ i \in DOMAIN pods
    /\ call_outcome' = Some([call |-> "scan_pod", index |-> i,
                             outcome |-> scan_pod_outcome(pods[i])])
    /\ UNCHANGED cli_vars
    /\ UNCHANGED manager_vars
    /\ UNCHANGED compliance_vars
    /\ UNCHANGED <<findings, score_result, prev_result, pod_scores,
                   ns_result, pods, scan_result>>

\* scanner_mgr.scan_pods(pods)
CallScanPods ==
    /\ call_outcome = None
    /\ call_outcome' = Some([call |-> "scan_pods", index |-> 0,
                             outcome |-> scan_pods_outcome(pods)])
    /\ UNCHANGED cli_vars
    /\ UNCHANGED manager_vars
    /\ UNCHANGED compliance_vars
    /\ UNCHANGED <<findings, score_result, prev_result, pod_scores,
                   ns_result, pods, scan_result>>

NextCalls ==
    \/ \E p \in WellFormedPods \cup MalformedPods : ListAnyPod(p)
    \/ \E name \in DefinedScanners, i \in 1..MaxPods : CallRule(name, i)
    \/ \E i \in 1..MaxPods : CallScanPod(i)
    \/ CallScanPods

SpecCalls == Init /\ [][NextCalls]_vars

\* one iteration of the namespace loop: the listing succeeds
ScanNamespace(items) ==
    /\ run_outcome = None
    /\ Len(namespace_log) < MaxNamespaces
    /\ LET ns == NamespaceNames[Len(namespace_log) + 1]
       IN /\ namespace_log' =
                 Append(namespace_log,
                        [namespace |-> ns, status |-> 200,
                         items |-> in_namespace(items, ns)])
          /\ scan_locals' = scan_namespace(scan_locals, ns, in_namespace(items, ns))
    /\ UNCHANGED run_outcome
    /\ UNCHANGED manager_vars
    /\ UNCHANGED compliance_vars
    /\ UNCHANGED call_vars
    /\ UNCHANGED <<findings, score_result, prev_result, pod_scores,
                   ns_result, pods, scan_result>>

\* one iteration of the namespace loop: list_namespaced_pod raises
\* ApiException
ListingFails(status) ==
    /\ run_outcome = None
    /\ Len(namespace_log) < MaxNamespaces
    /\ namespace_log' =
           Append(namespace_log,
                  [namespace |-> NamespaceNames[Len(namespace_log) + 1],
                   status |-> status, items |-> <<>>])
    /\ scan_locals' = skip_namespace(scan_locals)
    /\ UNCHANGED run_outcome
    /\ UNCHANGED manager_vars
    /\ UNCHANGED compliance_vars
    /\ UNCHANGED call_vars
    /\ UNCHANGED <<findings, score_result, prev_result, pod_scores,
                   ns_result, pods, scan_result>>

\* the loop is over: scores, compliance, output, exit
FinishScan(output, fail_on_critical, min_score) ==
    /\ run_outcome = None
    /\ namespace_log # <<>>
    /\ run_outcome' =
           Some(finish_scan(scan_locals, output, fail_on_critical, min_score)
                    @@ [fail_on_critical |-> fail_on_critical,
                        min_score |-> min_score])
    /\ UNCHANGED <<namespace_log, scan_locals>>
    /\ UNCHANGED manager_vars
    /\ UNCHANGED compliance_vars
    /\ UNCHANGED call_vars
    /\ UNCHANGED <<findings, score_result, prev_result, pod_scores,
                   ns_result, pods, scan_result>>

NextCli ==
    \/ \E items \in NamespaceListings : ScanNamespace(items)
    \/ \E status \in ApiFailures : ListingFails(status)
    \/ \E output \in OutputModes, fail_on_critical \in BOOLEAN,
          min_score \in MinScores :
           FinishScan(output, fail_on_critical, min_score)

SpecCli == Init /\ [][NextCli]_vars

\* pod_findings = scanner_mgr.scan_pod(pod) on the manager in use
ScanPod(i) ==
    /\ UNCHANGED compliance_vars
    /\ UNCHANGED call_vars
    /\ UNCHANGED cli_vars
    /\ Len(scan_log) < MaxScanCalls
    /\ scan_log' = Append(scan_log,
                          [index |-> i, pod |-> pods[i],
                           after_scan_pods |-> scan_result # None,
                           findings |->
                               scan_pod_call(pods[i], accumulators).all_findings])
    /\ accumulators' = scan_pod_call(pods[i], accumulators).accumulators
    /\ UNCHANGED compliance_vars
    /\ UNCHANGED call_vars
    /\ UNCHANGED cli_vars
    /\ UNCHANGED <<findings, score_result, prev_result, pod_scores,
                   ns_result, pods, scan_result, rule_findings>>

NextManager ==
    \/ \E p \in ManagerPods : ListPod(p)
    \/ ScanPods
    \/ \E i \in DOMAIN pods : ScanPod(i)

SpecManager == Init /\ [][NextManager]_vars

\* ------------------------------------------------------------------------
\* Properties of the scorer
\* ------------------------------------------------------------------------
\* the scorer has returned normally for the current list
Scored == score_result # None /\ ~Raised(Val(score_result))
PrevScored == prev_result # None /\ ~Raised(Val(prev_result))

\* number of findings of severity s in the current list
CountOf(s) == Cardinality({i \in DOMAIN findings : findings[i].severity = s})

\* C1: for finding lists over the four severities the score lies in 0..100
\* and appending one more finding never raises it: the score for L ++ [f]
\* is at most the score for L.
C1_ScoreBoundedMonotone ==
    Scored =>
        /\ Val(score_result).score \in 0..100
        /\ PrevScored => Val(score_result).score <= Val(prev_result).score

\* a finding was appended to a list already at the floor, and the score
\* stays 0; total deductions exceed 100
C1_Witness ==
    /\ Scored /\ PrevScored
    /\ Len(findings) >= 2
    /\ Val(prev_result).score = 0
    /\ Val(score_result).score = 0
    /\ Val(score_result).total_deductions > 100

\* C2: calculate_pod_score([]) is score 100, grade A+, risk MINIMAL and
\* total deductions 0.
C2_EmptyListScore ==
    (findings = <<>> /\ score_result # None) =>
        /\ Val(score_result).score = 100
        /\ Val(score_result).grade = "A+"
        /\ Val(score_result).risk_level = "MINIMAL"
        /\ Val(score_result).total_deductions = 0

C2_Witness == findings = <<>> /\ score_result # None

ScoreResultFields ==
    {"score", "grade", "severity_breakdown", "risk_level", "total_deductions"}

\* C3: every result of calculate_pod_score, the one for the empty list
\* included, carries score, grade, a severity breakdown with one count per
\* severity summing to the number of findings, risk level and total
\* deduction.
C3_AllFieldsPresent ==
    Scored =>
        /\ ScoreResultFields \subseteq DOMAIN Val(score_result)
        /\ DOMAIN Val(score_result).severity_breakdown = Severities
        /\ Val(score_result).severity_breakdown["CRITICAL"]
             + Val(score_result).severity_breakdown["HIGH"]
             + Val(score_result).severity_breakdown["MEDIUM"]
             + Val(score_result).severity_breakdown["LOW"] = Len(findings)

\* the multiplier (in tenths) of the first phrase of `phrases` that occurs,
\* ignoring case, in the issue text; 10 when none occurs
PhraseMultiplier(issue, phrases) ==
    LET text == str_lower(issue)
        hits == {k \in DOMAIN phrases : str_contains(Chars(phrases[k].phrase), text)}
    IN IF hits = {} THEN 10
       ELSE phrases[CHOOSE k \in hits : \A h \in hits : k <= h].mult

WeightOf(severity) ==
    CASE severity = "CRITICAL" -> 15
      [] severity = "HIGH" -> 8
      [] severity = "MEDIUM" -> 3
      [] severity = "LOW" -> 1

\* the phrases as the specification lists them
SpecPhrases ==
    << [phrase |-> "hardcoded secret", mult |-> 15],
       [phrase |-> "running as root", mult |-> 13],
       [phrase |-> "privileged mode", mult |-> 13],
       [phrase |-> "host network", mult |-> 12] >>

\* the phrases the scorer matches
ScorerPhrases ==
    << [phrase |-> "hardcoded secret", mult |-> 15],
       [phrase |-> "container running as root", mult |-> 13],
       [phrase |-> "container running in privileged mode", mult |-> 13],
       [phrase |-> "pod using host network", mult |-> 12] >>

SpecMultipliers == [t \in IssueTexts |-> PhraseMultiplier(t, SpecPhrases)]
ScorerMultipliers == [t \in IssueTexts |-> PhraseMultiplier(t, ScorerPhrases)]

\* the finding's deduction is weight times the phrase multiplier; `phrases`
\* maps an issue text to its multiplier in tenths
DeductionIs(f, phrases) ==
    /\ base_deduction(f.severity) = WeightOf(f.severity)
    /\ multiplier_of[f.issue] = phrases[f.issue]
    /\ finding_deduction(f) =
         float_mul_int(WeightOf(f.severity), float_literal[phrases[f.issue]])

\* C4 as stated: the deduction of a finding is its severity weight times the
\* multiplier of the first of 'hardcoded secret', 'running as root',
\* 'privileged mode', 'host network' found in its issue text.
C4_SpecPhraseDeduction ==
    \A i \in DOMAIN findings :
        findings[i].severity \in Severities =>
            DeductionIs(findings[i], SpecMultipliers)

\* C4 amended: the phrases are 'hardcoded secret', 'container running as
\* root', 'container running in privileged mode', 'pod using host network';
\* the first one, in that order, found in the issue text ignoring case gives
\* the single multiplier (x1 when none is found).
C4_ScorerPhraseDeduction ==
    \A i \in DOMAIN findings :
        findings[i].severity \in Severities =>
            DeductionIs(findings[i], ScorerMultipliers)

\* an upper-case issue text, and a text holding two phrases whose table
\* order differs from their order in the text, have been scored
C4_Witness ==
    /\ Scored
    /\ \E i \in DOMAIN findings :
          findings[i].issue = "POD USING HOST NETWORK"
    /\ \E i \in DOMAIN findings :
          /\ findings[i].issue = "Pod using host network with a hardcoded secret"
          /\ multiplier_of[findings[i].issue] = 15

\* the exact sum of weight * multiplier over the list, in tenths
ExactDeductions10(fs) ==
    LET sum[i \in 0..Len(fs)] ==
            IF i = 0 THEN 0
            ELSE sum[i - 1] + WeightOf(fs[i].severity) * multiplier_of[fs[i].issue]
    IN sum[Len(fs)]

\* C5: the score is max(0, 100 - trunc(S)) and total_deductions is trunc(S),
\* S being the sum of the per-finding deductions, truncated once and not
\* capped at 100.
C5_ScoreIsTruncatedSum ==
    Scored =>
        /\ Val(score_result).total_deductions = ExactDeductions10(findings) \div 10
        /\ Val(score_result).score =
             Max(0, 100 - (ExactDeductions10(findings) \div 10))

\* the risk level by the ordered thresholds of the specification
RiskRule(c, h, m, l) ==
    IF c >= 3 THEN "CRITICAL"
    ELSE IF c >= 1 \/ h >= 5 THEN "HIGH"
    ELSE IF h >= 2 \/ m >= 8 THEN "MODERATE"
    ELSE IF m >= 3 \/ l >= 10 THEN "LOW"
    ELSE "MINIMAL"

\* C6: the risk level of a result is the first matching rule, in the order
\* critical >= 3, critical >= 1 or high >= 5, high >= 2 or medium >= 8,
\* medium >= 3 or low >= 10, else MINIMAL, of the severity counts of the
\* scored list.
C6_RiskLevelByCounts ==
    Scored =>
        Val(score_result).risk_level =
            RiskRule(CountOf("CRITICAL"), CountOf("HIGH"),
                     CountOf("MEDIUM"), CountOf("LOW"))

\* three CRITICAL findings, which also satisfy the second rule
C6_Witness ==
    /\ Scored
    /\ CountOf("CRITICAL") >= 3
    /\ CountOf("HIGH") >= 5
    /\ Val(score_result).risk_level = "CRITICAL"

\* the grade staircase of the specification
Staircase(score) ==
    CASE score >= 95 -> "A+"
      [] score < 95 /\ score >= 90 -> "A"
      [] score < 90 /\ score >= 85 -> "A-"
      [] score < 85 /\ score >= 80 -> "B+"
      [] score < 80 /\ score >= 75 -> "B"
      [] score < 75 /\ score >= 70 -> "B-"
      [] score < 70 /\ score >= 65 -> "C+"
      [] score < 65 /\ score >= 60 -> "C"
      [] score < 60 /\ score >= 55 -> "C-"
      [] score < 55 /\ score >= 50 -> "D"
      [] score < 50 -> "F"

\* C7: the grade of a result is the staircase value of the result's score.
C7_GradeIsStaircase ==
    Scored => Val(score_result).grade = Staircase(Val(score_result).score)

\* a score exactly on a step of the staircase
C7_Witness ==
    /\ Scored
    /\ findings # <<>>
    /\ Val(score_result).score = 85
    /\ Val(score_result).grade = "A-"

\* ------------------------------------------------------------------------
\* Properties of the namespace aggregation
\* ------------------------------------------------------------------------
NsScored == ns_result # None /\ pod_scores # <<>>
NsScores == {pod_scores[i].score : i \in DOMAIN pod_scores}
NsTotal == sum_scores(pod_scores)

\* best, worst and the two counts, and the chains they imply
NsExtremesAndCounts ==
    LET r == Val(ns_result)
    IN /\ r.total_pods = Len(pod_scores)
       /\ r.best_score \in NsScores /\ \A s \in NsScores : s <= r.best_score
       /\ r.worst_score \in NsScores /\ \A s \in NsScores : r.worst_score <= s
       /\ r.pods_at_risk =
            Cardinality({i \in DOMAIN pod_scores : pod_scores[i].score < 70})
       /\ r.critical_pods =
            Cardinality({i \in DOMAIN pod_scores : pod_scores[i].score < 40})
       /\ r.critical_pods <= r.pods_at_risk
       /\ r.pods_at_risk <= r.total_pods
       /\ 10 * r.worst_score <= r.average_score
       /\ r.average_score <= 10 * r.best_score

Scanned == scan_result # None

\* the findings of the ten registered rules for one pod, in catalog order
CatalogOrderFindings(pod) ==
    RootUserScanner_scan(pod)
        \o PrivilegedScanner_scan(pod)
        \o PrivilegeEscalationScanner_scan(pod)
        \o ReadOnlyFilesystemScanner_scan(pod)
        \o CPULimitsScanner_scan(pod)
        \o MemoryLimitsScanner_scan(pod)
        \o ResourceRequestsScanner_scan(pod)
        \o LatestTagScanner_scan(pod)
        \o UntaggedImageScanner_scan(pod)
        \o ImageRegistryScanner_scan(pod)

\* the per-pod lists of pods 1..n joined in input order
InputOrderFindings(n) ==
    LET join[i \in 0..n] ==
            IF i = 0 THEN <<>> ELSE join[i - 1] \o CatalogOrderFindings(pods[i])
    IN join[n]

\* position of a finding's pod in the input, of its rule in the catalog
PodIndex(f) == CHOOSE i \in DOMAIN pods : pods[i].metadata.name = f.pod_name
CatalogPosition(f) == CHOOSE k \in DOMAIN scanners : scanners[k] = f.scanner

\* C9: the flat list of scan_pods is the concatenation, over the pods in
\* input order, of scan_pod(pod), which is the concatenation of the rules'
\* findings in catalog order; so findings of an earlier pod precede those of
\* a later pod, within a pod findings are ordered by catalog position, and
\* total_findings is the length of the flat list.
C9_FlatListInPodAndCatalogOrder ==
    Scanned =>
        LET all_findings == Val(scan_result).all_findings
        IN /\ all_findings = InputOrderFindings(Len(pods))
           /\ \A i \in DOMAIN pods :
                  scan_pod(pods[i]) = CatalogOrderFindings(pods[i])
           /\ \A i, j \in DOMAIN all_findings :
                  i < j =>
                      /\ PodIndex(all_findings[i]) <= PodIndex(all_findings[j])
                      /\ PodIndex(all_findings[i]) = PodIndex(all_findings[j])
                             => CatalogPosition(all_findings[i])
                                    <= CatalogPosition(all_findings[j])
           /\ Val(scan_result).total_findings = Len(all_findings)

\* two pods scanned, each with findings, one of them with findings of
\* several rules
C9_Witness ==
    /\ Scanned
    /\ Len(pods) = 2
    /\ LET all_findings == Val(scan_result).all_findings
       IN /\ \E i, j \in DOMAIN all_findings :
                 /\ all_findings[i].pod_name = pods[1].metadata.name
                 /\ all_findings[j].pod_name = pods[2].metadata.name
          /\ \E i, j \in DOMAIN all_findings :
                 /\ all_findings[i].pod_name = all_findings[j].pod_name
                 /\ all_findings[i].scanner # all_findings[j].scanner

\* C10: scan_pod runs every rule the repository defines: for every scanned
\* pod and every defined rule R, each finding of R.scan(pod) appears in
\* scan_pod(pod).
C10_EveryDefinedRuleRuns ==
    Scanned =>
        \A i \in DOMAIN pods :
            \A name \in DefinedScanners :
                \A k \in DOMAIN scanner_scan(name, pods[i]) :
                    \E m \in DOMAIN scan_pod(pods[i]) :
                        scan_pod(pods[i])[m] = scanner_scan(name, pods[i])[k]

\* ------------------------------------------------------------------------
\* C11: the severity buckets
\* ------------------------------------------------------------------------
\* the positions of the flat list that hold a finding of severity s
PositionsOf(flat, s) == {i \in DOMAIN flat : flat[i].severity = s}

\* the k-th smallest position of a set of positions
KthPosition(positions, k) ==
    CHOOSE i \in positions : Cardinality({j \in positions : j <= i}) = k

\* bucket is the subsequence of flat with severity s, order kept
IsBucketOf(bucket, flat, s) ==
    /\ Len(bucket) = Cardinality(PositionsOf(flat, s))
    /\ \A k \in DOMAIN bucket :
           bucket[k] = flat[KthPosition(PositionsOf(flat, s), k)]

\* the four buckets are the four subsequences, and a finding of any other
\* severity is in none of them
BucketsOf(buckets, flat) ==
    /\ DOMAIN buckets = {"CRITICAL", "HIGH", "MEDIUM", "LOW"}
    /\ \A s \in DOMAIN buckets : IsBucketOf(buckets[s], flat, s)
    /\ \A i \in DOMAIN flat :
           flat[i].severity \notin {"CRITICAL", "HIGH", "MEDIUM", "LOW"}
               => \A s \in DOMAIN buckets : \A k \in DOMAIN buckets[s] :
                      buckets[s][k] # flat[i]

\* flat lists of up to three findings, one severity outside the four
ProbeFindings ==
    {[severity |-> "HIGH", issue |-> "Missing CPU limit"],
     [severity |-> "LOW", issue |-> "Pod uses default service account"],
     [severity |-> "INFO", issue |-> "Informational note"]}

ProbeLists ==
    {<<>>} \cup {<<a>> : a \in ProbeFindings}
           \cup {<<a, b>> : a \in ProbeFindings, b \in ProbeFindings}
           \cup {<<a, b, c>> : a \in ProbeFindings, b \in ProbeFindings,
                               c \in ProbeFindings}

\* C11: for each of the four severities the bucket of scan_pods is exactly
\* the subsequence of all_findings with that severity, in the same relative
\* order; a finding of any other severity stays in the flat list, is counted
\* in total_findings and is in no bucket.  The bucketing loop is also taken
\* over flat lists that hold a finding of another severity.
C11_BucketsAreOrderedSubsequences ==
    /\ Scanned =>
           /\ BucketsOf(Val(scan_result).findings_by_severity,
                        Val(scan_result).all_findings)
           /\ Val(scan_result).total_findings
                  = Len(Val(scan_result).all_findings)
    /\ \A flat \in ProbeLists : BucketsOf(organize_by_severity(flat), flat)

\* a scan whose flat list interleaves severities: a bucket with two findings
\* that are not neighbours in the flat list
C11_Witness ==
    /\ Scanned
    /\ LET flat == Val(scan_result).all_findings
       IN \E i, j, k \in DOMAIN flat :
              /\ i < j /\ j < k
              /\ flat[i].severity = flat[k].severity
              /\ flat[j].severity # flat[i].severity
              /\ Len(Val(scan_result).findings_by_severity[flat[i].severity]) >= 2

\* ------------------------------------------------------------------------
\* C12: severity and category of the findings of the rules
\* ------------------------------------------------------------------------
Evaluated == rule_findings # None

\* every finding the rules produced for the pod
ProducedFindings ==
    UNION {{Val(rule_findings)[name][k] :
               k \in DOMAIN Val(rule_findings)[name]} :
           name \in DOMAIN Val(rule_findings)}

\* the sizes of the four buckets added up
BucketSizes(buckets) ==
    Len(buckets["CRITICAL"]) + Len(buckets["HIGH"])
        + Len(buckets["MEDIUM"]) + Len(buckets["LOW"])

\* C12: every finding produced by any rule has one severity, among
\* CRITICAL, HIGH, MEDIUM and LOW, and one category, the one of its rule; so
\* the four buckets of scan_pods partition the flat list and the scorer's
\* base deduction of a produced finding is one of 15, 8, 3, 1.
C12_FindingsHaveSeverityAndCategory ==
    /\ Evaluated =>
           \A name \in DOMAIN Val(rule_findings) :
               \A k \in DOMAIN Val(rule_findings)[name] :
                   LET f == Val(rule_findings)[name][k]
                   IN /\ {"severity", "category"} \subseteq DOMAIN f
                      /\ f.severity \in {"CRITICAL", "HIGH", "MEDIUM", "LOW"}
                      /\ f.category = scanner_category[name]
                      /\ f.scanner = name
                      /\ base_deduction(f.severity) \in {15, 8, 3, 1}
                      /\ base_deduction(f.severity) = WeightOf(f.severity)
    /\ Scanned =>
           /\ Val(scan_result).total_findings
                  = BucketSizes(Val(scan_result).findings_by_severity)
           /\ \A i \in DOMAIN Val(scan_result).all_findings :
                  \E k \in DOMAIN Val(scan_result).findings_by_severity[
                                     Val(scan_result).all_findings[i].severity] :
                      Val(scan_result).findings_by_severity[
                          Val(scan_result).all_findings[i].severity][k]
                          = Val(scan_result).all_findings[i]

\* the rules were evaluated and the pod scanned, with findings of two
\* severities, one of them from the capabilities rule
C12_Witness ==
    /\ Evaluated
    /\ Scanned
    /\ Val(rule_findings)["CapabilitiesScanner"] # <<>>
    /\ Val(scan_result).total_findings >= 2
    /\ \E f, g \in ProducedFindings : f.severity # g.severity

\* ------------------------------------------------------------------------
\* C13: reentrancy of scan_pod
\* ------------------------------------------------------------------------
\* C13: after any sequence of earlier scan_pod / scan_pods calls on the same
\* manager, scan_pod(P) returns what a first scan of P returns; no call
\* changes the pod object, every scanner's findings accumulator stays empty,
\* and no finding of one pod is in the result for another.
C13_ScanPodReentrant ==
    /\ \A n \in DOMAIN scan_log :
           /\ scan_log[n].findings = CatalogOrderFindings(scan_log[n].pod)
           /\ pods[scan_log[n].index] = scan_log[n].pod
           /\ \A k \in DOMAIN scan_log[n].findings :
                  scan_log[n].findings[k].pod_name
                      = scan_log[n].pod.metadata.name
    /\ Scanned =>
           \E n \in 0..Len(pods) :
               Val(scan_result).all_findings = InputOrderFindings(n)
    /\ \A k \in DOMAIN accumulators : accumulators[k] = <<>>

\* a pod with findings scanned after scan_pods and after a scan of another
\* pod with findings
C13_Witness ==
    /\ Scanned
    /\ Len(scan_log) >= 2
    /\ scan_log[1].findings # <<>>
    /\ scan_log[2].findings # <<>>
    /\ scan_log[1].pod # scan_log[2].pod
    /\ scan_log[2].after_scan_pods
    /\ Val(scan_result).total_findings > 0

\* ------------------------------------------------------------------------
\* C14: compliance grouping by framework code
\* ------------------------------------------------------------------------
Analysed == compliance_result # None

\* the pairs <<i, k>>: reference k of finding i
ReferencePairs ==
    {<<i, k>> : i \in DOMAIN compliance_findings, k \in 1..MaxPlain} \cap
    UNION {{<<i, k>> : k \in DOMAIN compliance_findings[i].compliance} :
               i \in DOMAIN compliance_findings}

ReferenceAt(pr) == compliance_findings[pr[1]].compliance[pr[2]]

\* the part of r before its first '-', r itself when it has none
CodeBeforeDash(r) ==
    CHOOSE code \in {SubSeq(r, 1, n) : n \in 0..Len(r)} :
        /\ \A j \in 1..Len(code) : SubSeq(code, j, j) # "-"
        /\ \/ code = r
           \/ SubSeq(r, Len(code) + 1, Len(code) + 1) = "-"

\* the entry the claim describes for reference pr
EntryOf(pr) ==
    [reference |-> ReferenceAt(pr),
     issue |-> compliance_findings[pr[1]].issue,
     severity |-> compliance_findings[pr[1]].severity,
     pod |-> compliance_findings[pr[1]].pod_name]

PairsOfFramework(fw) == {pr \in ReferencePairs : CodeBeforeDash(ReferenceAt(pr)) = fw}

\* pr is visited before qr: earlier finding, or earlier reference of the same
PairBefore(pr, qr) == pr[1] < qr[1] \/ (pr[1] = qr[1] /\ pr[2] < qr[2])

\* the n-th pair of the framework in visiting order
NthPair(fw, n) ==
    CHOOSE pr \in PairsOfFramework(fw) :
        Cardinality({qr \in PairsOfFramework(fw) : PairBefore(qr, pr)}) = n - 1

\* C14: every (finding, reference) pair adds exactly one violation entry
\* {reference, issue, severity, pod} under the framework code that is the
\* part of the reference before its first '-' (the reference itself when it
\* has none); a framework is a key of framework_scores iff some reference
\* maps to it, framework_scores and framework_violations have the same keys,
\* total_frameworks_affected is their number, and a framework's
\* total_violations is its number of references, at least 1.
C14_OneEntryPerReference ==
    Analysed =>
        LET r == Val(compliance_result)
            Frameworks == {CodeBeforeDash(ReferenceAt(pr)) : pr \in ReferencePairs}
        IN /\ DOMAIN r.framework_scores = Frameworks
           /\ DOMAIN r.framework_violations = Frameworks
           /\ r.total_frameworks_affected = Cardinality(Frameworks)
           /\ \A fw \in Frameworks :
                  /\ Len(r.framework_violations[fw])
                         = Cardinality(PairsOfFramework(fw))
                  /\ \A n \in DOMAIN r.framework_violations[fw] :
                         r.framework_violations[fw][n] = EntryOf(NthPair(fw, n))
                  /\ r.framework_scores[fw].total_violations
                         = Cardinality(PairsOfFramework(fw))
                  /\ r.framework_scores[fw].total_violations >= 1

\* one finding with several references to one framework, a reference
\* without '-', one starting with '-', and a reference with two '-'
C14_Witness ==
    /\ Analysed
    /\ \E i \in DOMAIN compliance_findings :
           Cardinality({k \in DOMAIN compliance_findings[i].compliance :
               CodeBeforeDash(compliance_findings[i].compliance[k]) = "CIS"}) >= 2
    /\ {"CIS", "PCI", "", "Resource Management Best Practices"}
           \subseteq DOMAIN Val(compliance_result).framework_scores
    /\ Val(compliance_result).framework_scores["CIS"].total_violations
           > Len(compliance_findings)

\* ------------------------------------------------------------------------
\* C15: compliance percentage and status of a framework
\* ------------------------------------------------------------------------
\* number of the framework's entries of one severity
EntriesOfSeverity(fw, severity) ==
    Cardinality({pr \in PairsOfFramework(fw) :
                    compliance_findings[pr[1]].severity = severity})

\* the percentage the claim states for c CRITICAL and h HIGH entries
StatedPercentage(c, h) ==
    IF c > 0 THEN (IF 60 - 10 * c - 5 * h > 0 THEN 60 - 10 * c - 5 * h ELSE 0)
    ELSE IF h > 0 THEN (IF 80 - 5 * h > 0 THEN 80 - 5 * h ELSE 0)
    ELSE 90

\* the status the claim states for a percentage
StatedStatus(pct) ==
    CASE pct >= 90 -> "COMPLIANT"
      [] pct >= 70 /\ pct < 90 -> "MOSTLY_COMPLIANT"
      [] pct >= 50 /\ pct < 70 -> "PARTIALLY_COMPLIANT"
      [] pct < 50 -> "NON_COMPLIANT"

\* C15: a framework with c CRITICAL and h HIGH entries has percentage
\* max(0, 60 - 10c - 5h) if c > 0, else max(0, 80 - 5h) if h > 0, else 90,
\* always in 0..90; its status is COMPLIANT at >= 90, MOSTLY_COMPLIANT at
\* >= 70, PARTIALLY_COMPLIANT at >= 50, else NON_COMPLIANT; one CRITICAL
\* finding tagged only 'CIS-5.2.1' gives CIS 50% and PARTIALLY_COMPLIANT.
C15_PercentageAndStatus ==
    Analysed =>
        LET scores == Val(compliance_result).framework_scores
        IN /\ \A fw \in DOMAIN scores :
                  LET c == EntriesOfSeverity(fw, "CRITICAL")
                      h == EntriesOfSeverity(fw, "HIGH")
                  IN /\ scores[fw].critical_violations = c
                     /\ scores[fw].high_violations = h
                     /\ scores[fw].compliance_percentage = StatedPercentage(c, h)
                     /\ scores[fw].compliance_percentage \in 0..90
                     /\ scores[fw].status
                            = StatedStatus(scores[fw].compliance_percentage)
           /\ (/\ Len(compliance_findings) = 1
               /\ compliance_findings[1].severity = "CRITICAL"
               /\ compliance_findings[1].compliance = <<"CIS-5.2.1">>)
              => /\ DOMAIN scores = {"CIS"}
                 /\ scores["CIS"].compliance_percentage = 50
                 /\ scores["CIS"].status = "PARTIALLY_COMPLIANT"

\* CIS with CRITICAL and HIGH entries clamped at 0, a framework with HIGH
\* entries only, and one with neither
C15_Witness ==
    /\ Analysed
    /\ LET scores == Val(compliance_result).framework_scores
       IN /\ "CIS" \in DOMAIN scores
          /\ scores["CIS"].critical_violations > 0
          /\ scores["CIS"].high_violations > 0
          /\ 60 - 10 * scores["CIS"].critical_violations
                - 5 * scores["CIS"].high_violations < 0
          /\ scores["CIS"].compliance_percentage = 0
          /\ \E fw \in DOMAIN scores :
                 /\ scores[fw].critical_violations = 0
                 /\ scores[fw].high_violations > 0
                 /\ scores[fw].status = "MOSTLY_COMPLIANT"
          /\ \E fw \in DOMAIN scores : scores[fw].status = "COMPLIANT"

\* ------------------------------------------------------------------------
\* C16, C17: the root-user rule
\* ------------------------------------------------------------------------
\* the pod the rules were evaluated on
RulePod == pods[1]

\* the findings of one rule about one container of the pod
FindingsAbout(name, container_name) ==
    LET About(f) == f.container_name = container_name
    IN SelectSeq(Val(rule_findings)[name], About)

\* the container's own security context sets runAsUser = 0
SetsRootUser(c) ==
    c.security_context # None /\ Val(c.security_context).run_as_user = Some(0)

\* C16: a container whose own security context sets runAsUser = 0 gets
\* exactly one root-user finding, of severity CRITICAL, whatever its
\* runAsNonRoot and whatever the pod-level security context.
C16_ExplicitRootAlwaysFlagged ==
    Evaluated =>
        \A i \in DOMAIN RulePod.spec.containers :
            LET c == RulePod.spec.containers[i]
                fs == FindingsAbout("RootUserScanner", c.name)
            IN SetsRootUser(c) =>
                   /\ Len(fs) = 1
                   /\ fs[1].severity = "CRITICAL"
                   /\ fs[1].scanner = "RootUserScanner"

\* runAsUser = 0 with runAsNonRoot = true under a pod-level context that
\* sets runAsNonRoot = true and a non-zero runAsUser
C16_Witness ==
    /\ Evaluated
    /\ RulePod.spec.security_context # None
    /\ Val(RulePod.spec.security_context).run_as_non_root = Some(TRUE)
    /\ Val(RulePod.spec.security_context).run_as_user = Some(1000)
    /\ \E i \in DOMAIN RulePod.spec.containers :
           LET c == RulePod.spec.containers[i]
           IN /\ SetsRootUser(c)
              /\ Val(c.security_context).run_as_non_root = Some(TRUE)
              /\ Len(FindingsAbout("RootUserScanner", c.name)) = 1

\* the pod-level context sets runAsNonRoot true or a non-zero runAsUser
PodLevelOverride(pod) ==
    /\ pod.spec.security_context # None
    /\ LET psc == Val(pod.spec.security_context)
       IN \/ psc.run_as_non_root = Some(TRUE)
          \/ (psc.run_as_user # None /\ psc.run_as_user # Some(0))

\* C17: a container that does not itself set runAsUser = 0 gets no
\* root-user finding whenever the pod-level context sets runAsNonRoot true
\* or a non-zero runAsUser, with or without a container security context.
C17_PodLevelOverrideSuppresses ==
    Evaluated =>
        \A i \in DOMAIN RulePod.spec.containers :
            LET c == RulePod.spec.containers[i]
            IN (~SetsRootUser(c) /\ PodLevelOverride(RulePod)) =>
                   FindingsAbout("RootUserScanner", c.name) = <<>>

\* ------------------------------------------------------------------------
\* C18: the capabilities rule
\* ------------------------------------------------------------------------
\* the name upper-cased, without a leading 'CAP_'
LeadingPrefixStripped(cap) ==
    IF str_startswith(upper(cap), "CAP_")
    THEN SubSeq(upper(cap), 5, Len(upper(cap)))
    ELSE upper(cap)

\* the names a container adds, normalised as the claim states
AddedNames(c) ==
    IF /\ c.security_context # None
       /\ Val(c.security_context).capabilities # None
       /\ Val(Val(c.security_context).capabilities).add # None
    THEN LET add == Val(Val(Val(c.security_context).capabilities).add)
         IN {LeadingPrefixStripped(add[i]) : i \in DOMAIN add}
    ELSE {}

DangerousNames == {DANGEROUS_CAPABILITIES[k] : k \in DOMAIN DANGEROUS_CAPABILITIES}

\* C18: a capability name is normalised by upper-casing it and stripping a
\* leading 'CAP_' (nothing else is removed); a container gets one
\* capabilities finding iff some normalised name is in the dangerous set,
\* none otherwise; the finding is HIGH iff SYS_ADMIN or SYS_MODULE is among
\* the names, else MEDIUM.
C18_LeadingPrefixNormalisation ==
    Evaluated =>
        \A i \in DOMAIN RulePod.spec.containers :
            LET c == RulePod.spec.containers[i]
                fs == FindingsAbout("CapabilitiesScanner", c.name)
            IN IF AddedNames(c) \cap DangerousNames # {}
               THEN /\ Len(fs) = 1
                    /\ fs[1].severity =
                           IF AddedNames(c) \cap {"SYS_ADMIN", "SYS_MODULE"} # {}
                           THEN "HIGH" ELSE "MEDIUM"
               ELSE fs = <<>>

\* ------------------------------------------------------------------------
\* C19: the image-registry rule
\* ------------------------------------------------------------------------
HasChar(s, ch) == \E j \in 1..Len(s) : SubSeq(s, j, j) = ch

\* the text of the image reference before its first '/'
FirstSegment(image) ==
    CHOOSE seg \in {SubSeq(image, 1, n) : n \in 0..Len(image)} :
        /\ ~HasChar(seg, "/")
        /\ SubSeq(image, Len(seg) + 1, Len(seg) + 1) = "/"

\* the registry the claim extracts from an image reference
StatedRegistry(image) ==
    IF ~HasChar(image, "/") THEN "docker.io"
    ELSE IF HasChar(FirstSegment(image), ".") \/ HasChar(FirstSegment(image), ":")
    THEN FirstSegment(image)
    ELSE "docker.io"

\* some trusted-list entry is a prefix of the registry
HasTrustedPrefix(registry) ==
    \E k \in DOMAIN TRUSTED_REGISTRIES :
        /\ Len(TRUSTED_REGISTRIES[k]) <= Len(registry)
        /\ SubSeq(registry, 1, Len(TRUSTED_REGISTRIES[k])) = TRUSTED_REGISTRIES[k]

Occurs(kw, s) ==
    \E j \in 1..(Len(s) - Len(kw) + 1) : SubSeq(s, j, j + Len(kw) - 1) = kw

HasSafeKeyword(name) ==
    \E k \in DOMAIN SAFE_PATTERNS : Occurs(SAFE_PATTERNS[k], upper(name))

HasSecretKeyword(name) ==
    \E k \in DOMAIN SECRET_PATTERNS : Occurs(SECRET_PATTERNS[k], upper(name))

\* the variable carries a literal value of its own (an empty value is no
\* value: the API leaves it out of the object)
HasInlineLiteral(env_var) == env_var.value # None /\ Val(env_var.value) # ""

\* the variables the claim flags
StatedSecret(env_var) ==
    /\ ~HasSafeKeyword(env_var.name)
    /\ HasSecretKeyword(env_var.name)
    /\ env_var.value_from = None
    /\ HasInlineLiteral(env_var)

EnvOf(c) == IF c.env = None THEN <<>> ELSE Val(c.env)

\* C20: an env var gets exactly one CRITICAL secrets finding iff its
\* upper-cased name holds no safe keyword, holds a secret keyword, has no
\* value-from reference and has an inline literal value, and none
\* otherwise; the safe keywords are tested first, so DB_PORT and TOKEN_PORT
\* never flag, DB_PASSWORD with a literal flags and DB_PASSWORD from a
\* reference does not.
C20_SecretsInEnv ==
    Evaluated =>
        \A i \in DOMAIN RulePod.spec.containers :
            LET c == RulePod.spec.containers[i]
                fs == FindingsAbout("SecretsInEnvScanner", c.name)
                flagged == SelectSeq(EnvOf(c), StatedSecret)
            IN /\ Len(fs) = Len(flagged)
               /\ \A k \in DOMAIN fs :
                      /\ fs[k].severity = "CRITICAL"
                      /\ fs[k].issue = "Hardcoded secret in environment variable: "
                                           \o flagged[k].name
               /\ \A k \in DOMAIN EnvOf(c) :
                      LET e == EnvOf(c)[k]
                      IN /\ e.name \in {"DB_PORT", "TOKEN_PORT"}
                             => ~StatedSecret(e)
                         /\ e.name = "DB_PASSWORD"
                             => (StatedSecret(e) <=>
                                     (e.value_from = None /\ HasInlineLiteral(e)))

\* a literal DB_PASSWORD flagged beside a DB_PORT that is not
C20_Witness ==
    /\ Evaluated
    /\ Len(RulePod.spec.containers) = 1
    /\ LET env == EnvOf(RulePod.spec.containers[1])
       IN /\ Len(env) = 3
          /\ env[1].name = "DB_PASSWORD" /\ StatedSecret(env[1])
          /\ env[2].name = "DB_PORT" /\ HasInlineLiteral(env[2])
    /\ Len(Val(rule_findings)["SecretsInEnvScanner"]) = 2

\* ------------------------------------------------------------------------
\* C21: flagged values are masked
\* ------------------------------------------------------------------------
\* what the claim lets a finding show of a flagged value
StatedMask(value) ==
    IF Len(value) <= 4 THEN "****"
    ELSE SubSeq(value, 1, 2) \o "..." \o SubSeq(value, Len(value) - 1, Len(value))

\* the variable with the hidden characters of a flagged long value dropped
RedactVar(env_var) ==
    IF StatedSecret(env_var) /\ Len(Val(env_var.value)) > 4
    THEN [env_var EXCEPT !.value =
             Some(SubSeq(Val(env_var.value), 1, 2) \o "*"
                      \o SubSeq(Val(env_var.value), Len(Val(env_var.value)) - 1,
                                Len(Val(env_var.value))))]
    ELSE env_var

RedactContainer(c) ==
    IF c.env = None THEN c
    ELSE [c EXCEPT !.env = Some([k \in DOMAIN Val(c.env) |-> RedactVar(Val(c.env)[k])])]

RedactPod(pod) ==
    [pod EXCEPT !.spec.containers =
        [i \in DOMAIN pod.spec.containers |-> RedactContainer(pod.spec.containers[i])]]

\* the pod has a flagged value longer than 4
HasHiddenCharacters(pod) ==
    \E i \in DOMAIN pod.spec.containers :
        \E k \in DOMAIN EnvOf(pod.spec.containers[i]) :
            LET env_var == EnvOf(pod.spec.containers[i])[k]
            IN env_var.value # None /\ Len(Val(env_var.value)) > 4
                   /\ StatedSecret(env_var)

\* q differs from p only in hidden characters of flagged values longer than 4
MiddleVariant(p, q) == p # q /\ RedactPod(p) = RedactPod(q)

\* the text fields of a finding, the variable parts of its description
\* and remediation included
TextsOf(f) ==
    {f.issue, f.pod_name, f.namespace, f.container_name}
        \cup {f.description[k] : k \in DOMAIN f.description}
        \cup {f.remediation[k] : k \in DOMAIN f.remediation}

\* C21: a secrets-in-env finding shows the flagged value only masked: as
\* '****' when its length is <= 4, else as its first 2 and last 2
\* characters; two pods that differ only in other characters of flagged
\* values longer than 4 get identical findings from every rule.
C21_FlaggedValueMasked ==
    Evaluated =>
        /\ \A i \in DOMAIN RulePod.spec.containers :
               LET c == RulePod.spec.containers[i]
                   fs == FindingsAbout("SecretsInEnvScanner", c.name)
                   flagged == SelectSeq(EnvOf(c), StatedSecret)
               IN /\ Len(fs) = Len(flagged)
                  /\ \A k \in DOMAIN fs :
                         LET value == Val(flagged[k].value)
                         IN /\ fs[k].description[4] = StatedMask(value)
                            /\ fs[k].remediation[2] = StatedMask(value)
                            /\ \A t \in TextsOf(fs[k]) :
                                   \/ t = StatedMask(value)
                                   \/ ~Occurs(SubSeq(value, 1, 3), t)
        /\ HasHiddenCharacters(RulePod) =>
               \A q \in EnvPods :
                   MiddleVariant(RulePod, q) =>
                       \A name \in DefinedScanners :
                           scanner_scan(name, q) = Val(rule_findings)[name]

\* a flagged value longer than 4 with a variant pod of another length
C21_Witness ==
    /\ Evaluated
    /\ Val(rule_findings)["SecretsInEnvScanner"] # <<>>
    /\ Val(rule_findings)["SecretsInEnvScanner"][1].description[4] = "hu...et"
    /\ \E q \in EnvPods :
           /\ MiddleVariant(RulePod, q)
           /\ Len(Val(EnvOf(q.spec.containers[1])[1].value))
                  # Len(Val(EnvOf(RulePod.spec.containers[1])[1].value))

\* ------------------------------------------------------------------------
\* C22: the three resource rules
\* ------------------------------------------------------------------------
\* the sub-section a rule reads and the keys it checks there
ResourceRules ==
    [CPULimitsScanner |-> [section |-> "limits", keys |-> {"cpu"}],
     MemoryLimitsScanner |-> [section |-> "limits", keys |-> {"memory"}],
     ResourceRequestsScanner |-> [section |-> "requests", keys |-> {"cpu", "memory"}]]

SectionOf(c, section) ==
    IF section = "limits" THEN Val(c.resources).limits
    ELSE Val(c.resources).requests

\* 0: every checked key is there; 1: no resources section; 2: resources but
\* no (or an empty) sub-section; 3: sub-section without a checked key
MissingTier(c, rule) ==
    IF c.resources = None THEN 1
    ELSE IF SectionOf(c, ResourceRules[rule].section) \in {None, Some({})} THEN 2
    ELSE IF ResourceRules[rule].keys
               \subseteq Val(SectionOf(c, ResourceRules[rule].section))
    THEN 0
    ELSE 3

\* what the tiers' findings have in common
ShapeOf(f) ==
    [severity |-> f.severity, issue |-> f.issue,
     remediation |-> f.remediation, compliance |-> f.compliance]

\* rule gives the container of RulePod a finding iff a checked key is
\* missing, shaped like the finding of every other tier's pod and with a
\* reason of its own
TieredLikeStated(rule) ==
    \A i \in DOMAIN RulePod.spec.containers :
        LET c == RulePod.spec.containers[i]
            fs == FindingsAbout(rule, c.name)
        IN IF MissingTier(c, rule) = 0 THEN fs = <<>>
           ELSE /\ Len(fs) = 1
                /\ \A q \in ResourcePods :
                       LET d == q.spec.containers[1]
                           gs == scanner_scan(rule, q)
                       IN (MissingTier(d, rule) # 0 /\ d.name = c.name
                               /\ q.metadata = RulePod.metadata) =>
                              /\ Len(gs) = 1
                              /\ ShapeOf(gs[1]) = ShapeOf(fs[1])
                              /\ (MissingTier(d, rule) # MissingTier(c, rule))
                                     <=> (gs[1].description # fs[1].description)

\* C22 as stated: each of the CPU-limit, memory-limit and resource-requests
\* rules gives a container a finding iff the checked key is missing, with a
\* distinct reason string for each of the three tiers of 'missing' and
\* otherwise the same severity, issue, remediation and compliance codes.
C22_ThreeTiersEveryRule ==
    Evaluated => \A rule \in DOMAIN ResourceRules : TieredLikeStated(rule)

\* the keys the requests rule reports for a container
MissingRequests(c) ==
    IF MissingTier(c, "ResourceRequestsScanner") \in {1, 2} THEN {"cpu", "memory"}
    ELSE {"cpu", "memory"} \ Val(Val(c.resources).requests)

\* C22 amended: the CPU-limit and memory-limit rules behave as stated; the
\* resource-requests rule gives a container one MEDIUM finding iff a cpu or
\* memory request is missing, whose issue names the missing requests and
\* which is the same finding for a missing resources section and a missing
\* requests sub-section.
C22_TiersOfLimitsRules ==
    Evaluated =>
        /\ TieredLikeStated("CPULimitsScanner")
        /\ TieredLikeStated("MemoryLimitsScanner")
        /\ \A i \in DOMAIN RulePod.spec.containers :
               LET c == RulePod.spec.containers[i]
                   fs == FindingsAbout("ResourceRequestsScanner", c.name)
                   missing == MissingRequests(c)
               IN IF missing = {} THEN fs = <<>>
                  ELSE /\ Len(fs) = 1
                       /\ fs[1].severity = "MEDIUM"
                       /\ fs[1].issue = "Missing resource requests: " \o
                              (CASE missing = {"cpu", "memory"} -> "cpu and memory"
                                 [] missing = {"cpu"} -> "cpu"
                                 [] missing = {"memory"} -> "memory")
                       /\ fs[1].description
                              = <<c.name, RulePod.metadata.name,
                                  SubSeq(fs[1].issue, 28, Len(fs[1].issue))>>
                       /\ fs[1].compliance
                              = <<"CIS-5.2.9", "Resource Management Best Practices",
                                  "Kubernetes QoS Classes">>

\* limits without 'cpu' beside requests without 'memory'
C22_Witness ==
    /\ Evaluated
    /\ Len(RulePod.spec.containers) = 1
    /\ MissingTier(RulePod.spec.containers[1], "CPULimitsScanner") = 3
    /\ MissingTier(RulePod.spec.containers[1], "MemoryLimitsScanner") = 0
    /\ MissingRequests(RulePod.spec.containers[1]) = {"memory"}
    /\ Len(Val(rule_findings)["CPULimitsScanner"]) = 1
    /\ Len(Val(rule_findings)["ResourceRequestsScanner"]) = 1

\* ------------------------------------------------------------------------
\* C23: the hostPath rule
\* ------------------------------------------------------------------------
VolumesOf(pod) == IF pod.spec.volumes = None THEN <<>> ELSE Val(pod.spec.volumes)

HasHostPath(volume) == volume.host_path # None

\* the names of the containers that have a mount of the volume, each once,
\* in container order
MountingContainers(pod, volume) ==
    LET names == [i \in DOMAIN pod.spec.containers |-> pod.spec.containers[i].name]
        Mounts(name) ==
            \E i \in DOMAIN pod.spec.containers :
                /\ pod.spec.containers[i].name = name
                /\ pod.spec.containers[i].volume_mounts # None
                /\ \E k \in DOMAIN Val(pod.spec.containers[i].volume_mounts) :
                       Val(pod.spec.containers[i].volume_mounts)[k] = volume.name
    IN SelectSeq(names, Mounts)

\* the names separated by ', ', 'none' for no name
NamesListed(names) ==
    LET text[n \in 0..Len(names)] ==
            IF n = 0 THEN ""
            ELSE IF n = 1 THEN names[1]
            ELSE LET before == text[n - 1] IN before \o ", " \o names[n]
    IN IF names = <<>> THEN "none" ELSE text[Len(names)]

\* C23: the hostPath rule gives one HIGH finding per pod volume with a
\* host-path source, none for other volumes, and the finding's container
\* field names exactly the containers that have a volumeMount of the
\* volume's name, in container order ('none' when no container mounts it).
C23_HostPathNamesMountingContainers ==
    Evaluated =>
        LET volumes == SelectSeq(VolumesOf(RulePod), HasHostPath)
            fs == Val(rule_findings)["HostPathScanner"]
        IN /\ Len(fs) = Len(volumes)
           /\ \A k \in DOMAIN fs :
                  /\ fs[k].severity = "HIGH"
                  /\ fs[k].issue = "Using hostPath volume: "
                                       \o Val(volumes[k].host_path)
                  /\ fs[k].container_name
                         = NamesListed(MountingContainers(RulePod, volumes[k]))

\* ------------------------------------------------------------------------
\* C24: absent structures give findings, malformed pods raise
\* ------------------------------------------------------------------------
Called == call_outcome # None

\* the pod has its metadata and its spec
WellFormed(pod) == pod.metadata # None /\ pod.spec # None

\* the pods the call was made on
PodsOfCall ==
    IF Val(call_outcome).call = "scan_pods" THEN {pods[i] : i \in DOMAIN pods}
    ELSE {pods[Val(call_outcome).index]}

\* C24: a rule, scan_pod and scan_pods return (possibly with findings) for
\* pods that have metadata, a spec and containers, whichever optional
\* objects are absent; they raise, returning nothing, when a pod lacks its
\* metadata or its spec.
C24_AbsenceNeverRaises ==
    Called =>
        LET outcome == Val(call_outcome).outcome
        IN /\ (\A p \in PodsOfCall : WellFormed(p))
                  <=> "returned" \in DOMAIN outcome
           /\ (\E p \in PodsOfCall : ~WellFormed(p))
                  <=> (DOMAIN outcome = {"raised"})

\* scan_pods raised on a list whose first pod is well formed, has optional
\* objects absent and findings of its own
C24_Witness ==
    /\ Called
    /\ Val(call_outcome).call = "scan_pods"
    /\ Len(pods) = 2
    /\ pods[1].metadata # None /\ pods[1].metadata.name = "pod-bare"
    /\ scan_pod_outcome(pods[1]).returned # <<>>
    /\ pods[2].metadata = None
    /\ Raised(Val(call_outcome).outcome)

\* ------------------------------------------------------------------------
\* C25: a namespace whose listing fails is skipped and nothing else
\* ------------------------------------------------------------------------
Listed(entry) == entry.status = 200
ListedNamespaces == SelectSeq(namespace_log, Listed)
FailedBefore(k) == \E j \in 1..(k - 1) : ~Listed(namespace_log[j])

RECURSIVE FlattenPods(_)
FlattenPods(log) ==
    IF log = <<>> THEN <<>>
    ELSE log[1].items \o FlattenPods(Tail(log))

\* the pods of the namespaces that were listed, in the order of the run
ListedPods == FlattenPods(ListedNamespaces)

\* every pod a listing can return, and what a scan of it finds and scores
ListablePods ==
    UNION {{in_namespace(items, NamespaceNames[k])[i] : i \in DOMAIN items} :
               items \in NamespaceListings, k \in DOMAIN NamespaceNames}
FindingsOfPod == [p \in ListablePods |-> scan_pod(p)]
ScoreOfPod == [p \in ListablePods |-> calculate_pod_score(scan_pod(p))]

\* the findings of one severity over a list of pods, pod by pod
RECURSIVE BucketOver(_, _)
BucketOver(ps, severity) ==
    IF ps = <<>> THEN <<>>
    ELSE LET OfSeverity(f) == f.severity = severity
         IN SelectSeq(FindingsOfPod[ps[1]], OfSeverity)
                \o BucketOver(Tail(ps), severity)

Finished == run_outcome # None
JsonWithoutFlags ==
    /\ Finished
    /\ Val(run_outcome).output = "json"
    /\ ~Val(run_outcome).fail_on_critical
    /\ Val(run_outcome).min_score = 0
NoCriticalMerged ==
    \A i \in DOMAIN Val(run_outcome).findings :
        Val(run_outcome).findings[i].severity # "CRITICAL"
SomePodWithoutFindings ==
    \E i \in DOMAIN scan_locals.pod_findings :
        scan_locals.pod_findings[i] = <<>>

\* C26: a JSON run without --fail-on-critical and --min-score emits its
\* report and exits 0 exactly when the merged findings hold no CRITICAL
\* finding and the overall score is at least 60, and exits 1 otherwise; a
\* run that found nothing, or one of whose pods has no finding, is such a
\* reporting run.
C26_JsonExitCode ==
    JsonWithoutFlags =>
        /\ Val(run_outcome).report # None
        /\ Val(run_outcome).exit_code =
               (IF NoCriticalMerged /\ Val(run_outcome).overall_score.score >= 60
                THEN 0 ELSE 1)

\* ------------------------------------------------------------------------
\* C30: the overall score against the pod scores of the same run
\* ------------------------------------------------------------------------
RECURSIVE Flatten(_)
Flatten(lists) ==
    IF lists = <<>> THEN <<>> ELSE lists[1] \o Flatten(Tail(lists))

Occurrences(f, fs) == Cardinality({i \in DOMAIN fs : fs[i] = f})
SameMultiset(fs, gs) ==
    /\ Len(fs) = Len(gs)
    /\ \A i \in DOMAIN fs : Occurrences(fs[i], fs) = Occurrences(fs[i], gs)

\* C30: when a run has left the namespace loop, the overall score computed
\* from the merged findings is at most the score of every pod recorded in
\* pod_scores, and the merged findings are, as a multiset, the union of the
\* lists the pod scores were computed from.
C30_OverallScoreBelowPodScores ==
    Finished =>
        /\ \A i \in DOMAIN scan_locals.pod_scores :
               Val(run_outcome).overall_score.score
                   <= scan_locals.pod_scores[i].score
        /\ Len(scan_locals.pod_findings) = Len(scan_locals.pod_scores)
        /\ \A i \in DOMAIN scan_locals.pod_scores :
               scan_locals.pod_scores[i].findings_count
                   = Len(scan_locals.pod_findings[i])
        /\ SameMultiset(Val(run_outcome).findings,
                        Flatten(scan_locals.pod_findings))

\* three pods of two namespaces, each with findings, and an overall score
\* strictly below all three pod scores
C30_Witness ==
    /\ Finished
    /\ Len(ListedNamespaces) = 2
    /\ Len(scan_locals.pod_scores) = 3
    /\ \A i \in DOMAIN scan_locals.pod_findings :
           scan_locals.pod_findings[i] # <<>>
    /\ \A i \in DOMAIN scan_locals.pod_scores :
           Val(run_outcome).overall_score.score
               < scan_locals.pod_scores[i].score
    /\ Len(Val(run_outcome).findings) = 9

\* ------------------------------------------------------------------------
\* C27: an official Docker Hub image before the image-registry rule
\* ------------------------------------------------------------------------
\* C27: a container whose image is 'docker.io/library/nginx:1.21.6' gets
\* no image-registry finding.
C27_OfficialImageTrusted ==
    Evaluated =>
        \A i \in DOMAIN RulePod.spec.containers :
            LET c == RulePod.spec.containers[i]
            IN c.image = "docker.io/library/nginx:1.21.6" =>
                   FindingsAbout("ImageRegistryScanner", c.name) = <<>>

\* ------------------------------------------------------------------------
\* C28: the untagged-image rule
\* ------------------------------------------------------------------------
\* the text of the image reference after its last '/'
LastSegment(image) ==
    CHOOSE seg \in {SubSeq(image, n, Len(image)) : n \in 1..(Len(image) + 1)} :
        /\ ~HasChar(seg, "/")
        /\ \/ Len(seg) = Len(image)
           \/ SubSeq(image, Len(image) - Len(seg), Len(image) - Len(seg)) = "/"

\* a tag follows the name, or a digest is given
HasTagOrDigest(image) ==
    HasChar(LastSegment(image), ":") \/ HasChar(image, "@")

\* C28: a container gets exactly one MEDIUM untagged-image finding iff its
\* image has neither a tag nor a digest, and none otherwise;
\* 'myregistry:5000/app', whose only colon is the registry port, is flagged.
C28_UntaggedFlagged ==
    Evaluated =>
        \A i \in DOMAIN RulePod.spec.containers :
            LET c == RulePod.spec.containers[i]
                fs == FindingsAbout("UntaggedImageScanner", c.name)
            IN /\ IF HasTagOrDigest(c.image)
                  THEN fs = <<>>
                  ELSE Len(fs) = 1 /\ fs[1].severity = "MEDIUM"
               /\ c.image = "myregistry:5000/app" => Len(fs) = 1

\* ------------------------------------------------------------------------
\* C29: framework codes and framework names
\* ------------------------------------------------------------------------
\* ref is a reference of the framework whose table key is key
RefersTo(ref, key) ==
    /\ Len(ref) > Len(key)
    /\ SubSeq(ref, 1, Len(key) + 1) = key \o "-"

\* the framework code under which the analysis filed reference pr
FiledUnder(pr) ==
    CHOOSE code \in DOMAIN Val(compliance_result).framework_violations :
        \E n \in DOMAIN Val(compliance_result).framework_violations[code] :
            Val(compliance_result).framework_violations[code][n] = EntryOf(pr)

\* C29: a reference of any framework of FRAMEWORKS is filed under that
\* framework's table key, and get_framework_name turns the code it is filed
\* under into the framework's full name; 'PCI-DSS-2.2.5' is filed under
\* 'PCI-DSS' and named 'PCI Data Security Standard'.
C29_FrameworkCodeIsTableKey ==
    Analysed =>
        \A pr \in ReferencePairs :
            \A key \in DOMAIN FRAMEWORKS :
                RefersTo(ReferenceAt(pr), key) =>
                    /\ FiledUnder(pr) = key
                    /\ get_framework_name(FiledUnder(pr)) = FRAMEWORKS[key]

====
